---- MODULE Spec2Model ----
(***************************************************************************)
(* A model of the binary container code of spotify-downloader:             *)
(*   - the FLAC metadata-block editor (applyFlacTags and its helpers),     *)
(*   - the MPEG-DASH segment template resolver (parseMpdSegmentUrls).      *)
(*                                                                         *)
(* Byte buffers (Uint8Array) are modelled as run-length encoded byte       *)
(* sequences: a buffer is a sequence of runs [v |-> byte, n |-> count],    *)
(* n > 0, no two neighbouring runs with the same byte.  Every byte         *)
(* sequence has exactly one such encoding, so equality of encodings is     *)
(* equality of buffers, and a buffer of 2^24 bytes is one run.             *)
(***************************************************************************)
EXTENDS Integers, Sequences, FiniteSets, TLC

VARIABLES
    pc,         \* position of the modelled caller
    source,     \* applyFlacTags: the input buffer
    metadata,   \* applyFlacTags: the FlacTagMetadata argument (or Null)
    cover,      \* applyFlacTags: the FlacPicture argument (or Null)
    tagged,     \* result of applyFlacTags(source, metadata, cover)
    retagged,   \* result of applyFlacTags(tagged, metadata, cover)
    comment,    \* result of buildVorbisCommentBlock(metadata)
    mpd,        \* parseMpdSegmentUrls: the MPD document (mpdText)
    plan,       \* result of parseMpdSegmentUrls(mpd)
    manifest,   \* decodeManifest: the base64 text of the manifest
    decoded,    \* decodeManifest: decodedBuffer and decodedText
    result,     \* decodeManifest: what the call returned or threw
    jsonParsed, \* decodeManifest: whether JSON.parse has been called
    requiresConversion, \* fetchDownloadBlob: info.requiresConversion
    delivery,   \* fetchDownloadBlob: the Blob it resolved with, or its rejection
    errors,     \* fetchDownloadBlob: what has thrown so far, in order
    notice,     \* fetchDownloadBlob: the message passed to setError
    tracks,     \* main: the tracks read from the CSV file
    cursor,     \* main: the loop index i (from 1)
    counts,     \* main: downloaded, skipped, failed
    exitCode,   \* main: process.exitCode
    log,        \* main: what was logged for each track, in order
    shouldTag,  \* downloadTrackFile: metadata !== undefined
    files,      \* downloadTrackFile: the files in the download directory
    completed,  \* downloadTrackFile: the flag of the same name
    thrown,     \* downloadTrackFile: the error it rejected with, or Null
    warnings,   \* downloadTrackFile: the paths console.warn named, in order
    unlinked,   \* downloadTrackFile: the paths unlink was called with
    sessionIndex,   \* sessionRoutes: session.index
    sessionLength,  \* sessionRoutes: session.tracks.length
    currentIndex,   \* sessionRoutes: web session row, column currentIndex
    requests,       \* sessionRoutes: the requests being handled
    resultsCache,   \* sessionRoutes: the keys of session.resultsCache
    resultsInFlight,\* sessionRoutes: session.resultsInFlight
    searches,       \* sessionRoutes: the calls of prefetchResults and loadResultsForIndex
    ffmpegPromise,  \* ffmpeg.ts: the module variable of the same name
    instances,      \* ffmpeg.ts: how many FFmpeg objects were created
    loadCalls,      \* ffmpeg.ts: how often load() was invoked
    callers         \* ffmpeg.ts: the calls of convertMp4ToFlac

flacVars == <<source, metadata, cover, tagged, retagged, comment>>

mpdVars == <<mpd, plan>>

manifestVars == <<manifest, decoded, result, jsonParsed>>

blobVars == <<requiresConversion, delivery, errors, notice>>

batchVars == <<tracks, cursor, counts, exitCode, log>>

downloadVars == <<shouldTag, files, completed, thrown, warnings, unlinked>>

sessionVars == <<sessionIndex, sessionLength, currentIndex, requests>>

searchVars == <<resultsCache, resultsInFlight, searches>>

loaderVars == <<ffmpegPromise, instances, loadCalls, callers>>

earlierVars == <<flacVars, mpdVars, manifestVars, blobVars, batchVars>>

laterVars == <<downloadVars, sessionVars, searchVars, loaderVars>>

vars == <<pc, earlierVars, laterVars>>

\* null / undefined, for a value that is otherwise an object (a record).
Null == [null |-> TRUE]

----------------------------------------------------------------------------
(* Uint8Array *)

Run(v, n) == [v |-> v, n |-> n]

\* Concatenation of two buffers (buffer.set of one after the other).
Cat(a, b) ==
    IF a = <<>> THEN b
    ELSE IF b = <<>> THEN a
    ELSE IF a[Len(a)].v = b[1].v
         THEN SubSeq(a, 1, Len(a) - 1)
                \o <<Run(b[1].v, a[Len(a)].n + b[1].n)>>
                \o SubSeq(b, 2, Len(b))
         ELSE a \o b

RECURSIVE FromBytes(_)
\* new Uint8Array([...]) : the buffer holding the bytes of a sequence.
FromBytes(s) ==
    IF s = <<>> THEN <<>>
    ELSE IF Len(s) = 1 THEN <<Run(s[1], 1)>>
    ELSE LET half == Len(s) \div 2
         IN  Cat(FromBytes(SubSeq(s, 1, half)), FromBytes(SubSeq(s, half + 1, Len(s))))

RECURSIVE BLen(_)
\* buffer.length
BLen(b) == IF b = <<>> THEN 0 ELSE b[1].n + BLen(Tail(b))

RECURSIVE ByteAt(_, _)
\* buffer[i], 0-based; only used for 0 <= i < length.
ByteAt(b, i) == IF i < b[1].n THEN b[1].v ELSE ByteAt(Tail(b), i - b[1].n)

RECURSIVE Drop(_, _)
\* The buffer without its first k bytes (k >= 0; all of it gone when k >= length).
Drop(b, k) ==
    IF k <= 0 \/ b = <<>> THEN b
    ELSE IF k < b[1].n THEN <<Run(b[1].v, b[1].n - k)>> \o Tail(b)
    ELSE Drop(Tail(b), k - b[1].n)

RECURSIVE Take(_, _)
\* The first k bytes of the buffer (all of it when k >= length).
Take(b, k) ==
    IF k <= 0 \/ b = <<>> THEN <<>>
    ELSE IF k < b[1].n THEN <<Run(b[1].v, k)>>
    ELSE <<b[1]>> \o Take(Tail(b), k - b[1].n)

\* source.slice(begin, end) for 0 <= begin: a fresh copy of bytes begin..end-1.
Slice(b, begin, end) == Take(Drop(b, begin), end - begin)

\* source.slice(begin)
SliceFrom(b, begin) == Drop(b, begin)

\* The four bytes view.setUint32(offset, value >>> 0, false) writes.
Uint32BE(value) ==
    FromBytes(<< (value \div 16777216) % 256, (value \div 65536) % 256,
                 (value \div 256) % 256, value % 256 >>)

\* The four bytes view.setUint32(offset, value >>> 0, true) writes.
Uint32LE(value) ==
    FromBytes(<< value % 256, (value \div 256) % 256,
                 (value \div 65536) % 256, (value \div 16777216) % 256 >>)

----------------------------------------------------------------------------
(* flacTags: constants *)

STREAMINFO_BLOCK_TYPE == 0
VORBIS_COMMENT_BLOCK_TYPE == 4
PICTURE_BLOCK_TYPE == 6

\* textEncoder.encode("spotify-downloader")
VENDOR_STRING ==
    <<115, 112, 111, 116, 105, 102, 121, 45,
      100, 111, 119, 110, 108, 111, 97, 100, 101, 114>>

\* "fLaC"
FLAC_HEADER_BYTES == <<102, 76, 97, 67>>

\* textEncoder.encode("Cover (front)")
CoverDescription == <<67, 111, 118, 101, 114, 32, 40, 102, 114, 111, 110, 116, 41>>

\* The keys of the comments, each with its "=": TITLE=, ARTIST=, ALBUM=, DATE=,
\* TRACKNUMBER=, in the order buildVorbisCommentBlock pushes them.
CommentKeys ==
    << [field |-> "title",       key |-> <<84, 73, 84, 76, 69, 61>>],
       [field |-> "artist",      key |-> <<65, 82, 84, 73, 83, 84, 61>>],
       [field |-> "album",       key |-> <<65, 76, 66, 85, 77, 61>>],
       [field |-> "date",        key |-> <<68, 65, 84, 69, 61>>],
       [field |-> "trackNumber",
        key |-> <<84, 82, 65, 67, 75, 78, 85, 77, 66, 69, 82, 61>>] >>

MetadataFields == {"title", "artist", "album", "date", "trackNumber"}

----------------------------------------------------------------------------
(* flacTags: builders *)

RECURSIVE CommentsFrom(_, _)
\* The comments array: one encoded "KEY=value" per truthy field, from key i on.
\* A field is a byte string; the empty string stands for "" and for undefined.
CommentsFrom(md, i) ==
    IF i > Len(CommentKeys) THEN <<>>
    ELSE (IF md[CommentKeys[i].field] # <<>>
          THEN << CommentKeys[i].key \o md[CommentKeys[i].field] >>
          ELSE <<>>)
         \o CommentsFrom(md, i + 1)

RECURSIVE EncodeComments_BigEndian(_)
\* Faulty variant: the comment lengths are written big-endian.
EncodeComments_BigEndian(cs) ==
    IF cs = <<>> THEN <<>>
    ELSE Cat(Cat(Uint32BE(Len(cs[1])), FromBytes(cs[1])), EncodeComments_BigEndian(Tail(cs)))

RECURSIVE EncodeComments(_)
\* The loop writing each comment: its little-endian length, then its bytes.
EncodeComments(cs) ==
    IF cs = <<>> THEN <<>>
    ELSE Cat(Cat(Uint32LE(Len(cs[1])), FromBytes(cs[1])), EncodeComments(Tail(cs)))

buildVorbisCommentBlock(md) ==
    LET commentBytes == CommentsFrom(md, 1)
    IN  Cat(Cat(Cat(Uint32LE(Len(VENDOR_STRING)), FromBytes(VENDOR_STRING)),
                Uint32LE(Len(commentBytes))),
            EncodeComments(commentBytes))

\* Faulty variant: the length fields are written little-endian.
buildPictureBlock_LittleEndian(picture) ==
    LET mimeBytes == picture.mimeType
        dataLength == BLen(picture.buffer)
    IN  Cat(Cat(Cat(Cat(Cat(Cat(Cat(Cat(Cat(Cat(
            Uint32BE(3),
            Uint32LE(Len(mimeBytes))),
            FromBytes(mimeBytes)),
            Uint32LE(Len(CoverDescription))),
            FromBytes(CoverDescription)),
            Uint32BE(0)),
            Uint32BE(0)),
            Uint32BE(0)),
            Uint32BE(0)),
            Uint32LE(dataLength)),
            picture.buffer)

buildPictureBlock(picture) ==
    LET mimeBytes == picture.mimeType
        dataLength == BLen(picture.buffer)
    IN  Cat(Cat(Cat(Cat(Cat(Cat(Cat(Cat(Cat(Cat(
            Uint32BE(3),
            Uint32BE(Len(mimeBytes))),
            FromBytes(mimeBytes)),
            Uint32BE(Len(CoverDescription))),
            FromBytes(CoverDescription)),
            Uint32BE(0)),
            Uint32BE(0)),
            Uint32BE(0)),
            Uint32BE(0)),
            Uint32BE(dataLength)),
            picture.buffer)

\* The four header bytes: bit 31 is-last, bits 30-24 the type, bits 23-0 the
\* length, written big-endian.  (The 32-bit value is never formed as one number:
\* its top byte and its low three bytes are computed apart.)
buildBlockHeader(type, isLast, length) ==
    LET low == length % 16777216
    IN  FromBytes(<< (IF isLast THEN 128 ELSE 0) + (type % 128),
                     (low \div 65536) % 256, (low \div 256) % 256, low % 256 >>)

----------------------------------------------------------------------------
(* flacTags: parseBlocks *)

\* Faulty variant: only the first three magic bytes are compared.
HasFlacMagic_ThreeBytes(src) ==
    /\ BLen(src) >= 4
    /\ \A i \in 1..3 : ByteAt(src, i - 1) = FLAC_HEADER_BYTES[i]

HasFlacMagic(src) ==
    /\ BLen(src) >= 4
    /\ \A i \in 1..4 : ByteAt(src, i - 1) = FLAC_HEADER_BYTES[i]

\* Faulty variant: the length check is missing (slice clamps to the end silently).
BlockOverruns_Unchecked(src, dataStart, blockLength) == FALSE

\* if (offset + blockLength > source.length) return null
BlockOverruns(src, dataStart, blockLength) == dataStart + blockLength > BLen(src)

RECURSIVE ParseLoop(_, _, _)
\* The while loop of parseBlocks from `offset` with `blocks` read so far.
ParseLoop(src, offset, blocks) ==
    IF offset + 4 <= BLen(src)
    THEN LET b0 == ByteAt(src, offset)
             isLast == b0 >= 128
             blockType == b0 % 128
             blockLength == ByteAt(src, offset + 1) * 65536
                            + ByteAt(src, offset + 2) * 256
                            + ByteAt(src, offset + 3)
             dataStart == offset + 4
         IN  IF BlockOverruns(src, dataStart, blockLength) THEN Null
             ELSE LET data == Slice(src, dataStart, dataStart + blockLength)
                      next == Append(blocks, [type |-> blockType, data |-> data])
                  IN  IF isLast
                      THEN [blocks |-> next, audioOffset |-> dataStart + blockLength]
                      ELSE ParseLoop(src, dataStart + blockLength, next)
    ELSE [blocks |-> blocks, audioOffset |-> offset]

parseBlocks(src) ==
    IF ~HasFlacMagic(src) THEN Null ELSE ParseLoop(src, 4, <<>>)

----------------------------------------------------------------------------
(* flacTags: applyFlacTags *)

hasMetadata(md) == md # Null /\ \E f \in MetadataFields : md[f] # <<>>

\* Faulty variant: a cover object counts as present whatever its buffer holds.
hasCover_IgnoresLength(cv) == cv # Null

hasCover(cv) == cv # Null /\ BLen(cv.buffer) > 0

IsOtherBlock(block) ==
    /\ block.type # STREAMINFO_BLOCK_TYPE
    /\ block.type # VORBIS_COMMENT_BLOCK_TYPE
    /\ block.type # PICTURE_BLOCK_TYPE

IsStreamInfo(block) == block.type = STREAMINFO_BLOCK_TYPE

\* Faulty variant: the last block of type STREAMINFO is taken.
FindStreamInfo_Last(blocks) ==
    LET hits == SelectSeq(blocks, IsStreamInfo)
    IN  IF hits = <<>> THEN Null ELSE hits[Len(hits)]

\* Faulty variant: without a STREAMINFO block the first block of the chain is taken.
FindStreamInfo_OrFirst(blocks) ==
    LET hits == SelectSeq(blocks, IsStreamInfo)
    IN  IF hits # <<>> THEN hits[1] ELSE IF blocks # <<>> THEN blocks[1] ELSE Null

\* parsed.blocks.find(...): the first block of type STREAMINFO, or Null.
FindStreamInfo(blocks) ==
    LET hits == SelectSeq(blocks, IsStreamInfo)
    IN  IF hits = <<>> THEN Null ELSE hits[1]

\* Faulty variant: only the old comment and picture blocks are filtered out.
otherBlocks_KeepsStreamInfo(blocks) ==
    LET kept(block) == block.type # VORBIS_COMMENT_BLOCK_TYPE
                       /\ block.type # PICTURE_BLOCK_TYPE
                       /\ block # FindStreamInfo(blocks)
    IN  SelectSeq(blocks, kept)

\* parsed.blocks.filter(...)
otherBlocks(blocks) == SelectSeq(blocks, IsOtherBlock)

\* Faulty variant: an old comment or picture block is dropped only when a new one
\* replaces it.
newBlocks_KeepsUnreplaced(blocks, md, cv) ==
    << [type |-> STREAMINFO_BLOCK_TYPE, data |-> FindStreamInfo(blocks).data] >>
    \o (IF hasMetadata(md)
        THEN << [type |-> VORBIS_COMMENT_BLOCK_TYPE, data |-> buildVorbisCommentBlock(md)] >>
        ELSE <<>>)
    \o (IF hasCover(cv)
        THEN << [type |-> PICTURE_BLOCK_TYPE, data |-> buildPictureBlock(cv)] >>
        ELSE <<>>)
    \o SelectSeq(blocks, LAMBDA b :
          /\ b.type # STREAMINFO_BLOCK_TYPE
          /\ (b.type = VORBIS_COMMENT_BLOCK_TYPE => ~hasMetadata(md))
          /\ (b.type = PICTURE_BLOCK_TYPE => ~hasCover(cv)))

\* The newBlocks array, for a parsed chain that holds a STREAMINFO block.
newBlocks(blocks, md, cv) ==
    << [type |-> STREAMINFO_BLOCK_TYPE, data |-> FindStreamInfo(blocks).data] >>
    \o (IF hasMetadata(md)
        THEN << [type |-> VORBIS_COMMENT_BLOCK_TYPE, data |-> buildVorbisCommentBlock(md)] >>
        ELSE <<>>)
    \o (IF hasCover(cv)
        THEN << [type |-> PICTURE_BLOCK_TYPE, data |-> buildPictureBlock(cv)] >>
        ELSE <<>>)
    \o otherBlocks(blocks)

RECURSIVE WriteBlocks_FlagsFirst(_, _)
\* Faulty variant: the is-last flag goes to the first block written.
WriteBlocks_FlagsFirst(blocks, index) ==
    IF index > Len(blocks) THEN <<>>
    ELSE Cat(Cat(buildBlockHeader(blocks[index].type, index = 1,
                                  BLen(blocks[index].data)),
                 blocks[index].data),
             WriteBlocks_FlagsFirst(blocks, index + 1))

RECURSIVE WriteBlocks(_, _)
\* The forEach writing each block: its header (is-last on the final index), then
\* its data.
WriteBlocks(blocks, index) ==
    IF index > Len(blocks) THEN <<>>
    ELSE Cat(Cat(buildBlockHeader(blocks[index].type, index = Len(blocks),
                                  BLen(blocks[index].data)),
                 blocks[index].data),
             WriteBlocks(blocks, index + 1))

\* Faulty variant: the copy starts one header past the end of the chain.
audioData_PastHeader(src, parsed) == SliceFrom(src, parsed.audioOffset + 4)

\* The audio bytes applyFlacTags copies: source.slice(parsed.audioOffset).
audioData(src, parsed) == SliceFrom(src, parsed.audioOffset)

\* Faulty variant: the rebuilt bytes are returned in the memory of `source`.
applyFlacTags_SharedBuffer(src, md, cv) ==
    IF ~hasMetadata(md) /\ ~hasCover(cv) THEN [same |-> TRUE, bytes |-> src]
    ELSE LET parsed == parseBlocks(src)
         IN  IF parsed = Null \/ FindStreamInfo(parsed.blocks) = Null
             THEN [same |-> TRUE, bytes |-> src]
             ELSE [same |-> TRUE,
                   bytes |-> Cat(Cat(FromBytes(FLAC_HEADER_BYTES),
                                     WriteBlocks(newBlocks(parsed.blocks, md, cv), 1)),
                                 audioData(src, parsed))]

\* applyFlacTags: [same |-> the returned value is the `source` object itself,
\*                 bytes |-> the returned bytes].
applyFlacTags(src, md, cv) ==
    IF ~hasMetadata(md) /\ ~hasCover(cv) THEN [same |-> TRUE, bytes |-> src]
    ELSE LET parsed == parseBlocks(src)
         IN  IF parsed = Null THEN [same |-> TRUE, bytes |-> src]
             ELSE IF FindStreamInfo(parsed.blocks) = Null
                  THEN [same |-> TRUE, bytes |-> src]
                  ELSE [same |-> FALSE,
                        bytes |-> Cat(Cat(FromBytes(FLAC_HEADER_BYTES),
                                          WriteBlocks(newBlocks(parsed.blocks, md, cv), 1)),
                                      audioData(src, parsed))]

----------------------------------------------------------------------------
(* Strings and numbers of the manifest code.  A string is a sequence of       *)
(* characters.  A number is NaN or a decimal fraction num/den, den a power   *)
(* of ten, kept in lowest decimal terms; the inputs of the model are chosen  *)
(* so that the doubles of the program hold these fractions exactly.          *)

Digits == <<"0", "1", "2", "3", "4", "5", "6", "7", "8", "9">>

IsDigit(c) == \E i \in 1..10 : Digits[i] = c

DigitValue(c) == (CHOOSE i \in 1..10 : Digits[i] = c) - 1

NaN == [nan |-> TRUE, num |-> 0, den |-> 1]

Num(num, den) == [nan |-> FALSE, num |-> num, den |-> den]

RECURSIVE Lowest(_, _)
\* num/den without trailing zero decimals.
Lowest(num, den) ==
    IF den > 1 /\ num % 10 = 0 THEN Lowest(num \div 10, den \div 10) ELSE Num(num, den)

RECURSIVE DigitsValue(_, _)
\* The value of a run of decimal digits, continued from acc.
DigitsValue(s, acc) ==
    IF s = <<>> THEN acc ELSE DigitsValue(Tail(s), 10 * acc + DigitValue(s[1]))

RECURSIVE PowerOfTen(_)
PowerOfTen(k) == IF k = 0 THEN 1 ELSE 10 * PowerOfTen(k - 1)

\* Number(string) for an unsigned decimal literal: digits, or digits "." digits
\* with either side possibly empty (but not both).
UnsignedNumber(s) ==
    LET dots == { i \in 1..Len(s) : s[i] = "." }
        allDigits(t) == \A i \in 1..Len(t) : IsDigit(t[i])
    IN  IF dots = {}
        THEN IF s # <<>> /\ allDigits(s) THEN Num(DigitsValue(s, 0), 1) ELSE NaN
        ELSE IF Cardinality(dots) > 1 THEN NaN
        ELSE LET dot == CHOOSE i \in dots : TRUE
                 whole == SubSeq(s, 1, dot - 1)
                 frac == SubSeq(s, dot + 1, Len(s))
             IN  IF Len(s) = 1 \/ ~allDigits(whole) \/ ~allDigits(frac) THEN NaN
                 ELSE Lowest(DigitsValue(frac, DigitsValue(whole, 0)),
                             PowerOfTen(Len(frac)))

\* Number(string): the empty string is 0, a decimal literal with an optional
\* sign is its value, any other text of the model's alphabet is NaN.
Number(s) ==
    IF s = <<>> THEN Num(0, 1)
    ELSE IF s[1] = "-"
         THEN LET u == UnsignedNumber(Tail(s))
              IN  IF u.nan THEN NaN ELSE Num(0 - u.num, u.den)
    ELSE IF s[1] = "+" THEN UnsignedNumber(Tail(s))
    ELSE UnsignedNumber(s)

\* Number.isFinite(x)
IsFinite(x) == ~x.nan

\* x > 0, false for NaN
Positive(x) == ~x.nan /\ x.num > 0

\* x + 1 and x++ for a finite x
PlusOne(x) == Num(x.num + x.den, x.den)

RECURSIVE IntToString(_)
\* String(n) for an integer n >= 0
IntToString(n) ==
    IF n < 10 THEN <<Digits[n + 1]>> ELSE IntToString(n \div 10) \o <<Digits[(n % 10) + 1]>>

RECURSIVE FractionDigits(_, _)
\* The decimals of num/den, 0 <= num < den, den a power of ten.
FractionDigits(num, den) ==
    IF den = 1 THEN <<>>
    ELSE <<Digits[(num \div (den \div 10)) + 1]>>
         \o FractionDigits(num % (den \div 10), den \div 10)

\* String(x) for a finite x >= 0 below 1e21: "3", "1.5"
NumberToString(x) ==
    IntToString(x.num \div x.den)
    \o (IF x.den = 1 THEN <<>> ELSE <<".">> \o FractionDigits(x.num % x.den, x.den))

\* The literal token "$Number$"
NumberToken == <<"$", "N", "u", "m", "b", "e", "r", "$">>

\* Positions at which pattern occurs in s.
Occurrences(s, pattern) ==
    { i \in 1..(Len(s) - Len(pattern) + 1) : SubSeq(s, i, i + Len(pattern) - 1) = pattern }

\* s.includes(pattern)
Includes(s, pattern) == Occurrences(s, pattern) # {}

\* s.replace(pattern, replacement) with a string pattern: the first occurrence
\* only is replaced.
Replace(s, pattern, replacement) ==
    LET at == Occurrences(s, pattern)
    IN  IF at = {} THEN s
        ELSE LET i == CHOOSE i \in at : \A j \in at : i <= j
             IN  SubSeq(s, 1, i - 1) \o replacement \o SubSeq(s, i + Len(pattern), Len(s))

----------------------------------------------------------------------------
(* manifest: parseMpdSegmentUrls and buildSegmentUrls.  The MPD text is      *)
(* modelled by what the regular expressions of the code extract from it:     *)
(* whether a <SegmentTemplate ...> tag and a <SegmentTimeline> element are   *)
(* found, the attributes of the tag, and the attributes of each <S .../>.    *)

\* The value of an attribute that parseAttributes did not find.
Undefined == <<"undefined">>

\* attrs.name ?? fallback
OrElse(value, fallback) == IF value = Undefined THEN fallback ELSE value

\* !value for a string or undefined
Falsy(value) == value = Undefined \/ value = <<>>

\* Faulty variant: the + 1 of the repeat count is missing.
repeatOf_NoPlusOne(entry) == IF entry.r.num >= 0 THEN entry.r ELSE Num(1, 1)

\* const repeat = entry.r >= 0 ? entry.r + 1 : 1
repeatOf(entry) == IF entry.r.num >= 0 THEN PlusOne(entry.r) ELSE Num(1, 1)

\* Faulty variant: the numbering restarts at startNumber with each timeline entry.
entryStart_Restarts(template, currentNumber) == template.startNumber

\* The segment number an entry starts at: currentNumber, which is declared before
\* the loop over the entries and so runs on from one entry to the next.
entryStart(template, currentNumber) == currentNumber

RECURSIVE repeatLoop(_, _, _, _)
\* for (let i = 0; i < repeat; i++) { segments.push(...); currentNumber++; }
\* from index i on: the URLs pushed and the number reached.
repeatLoop(media, repeat, i, currentNumber) ==
    IF i * repeat.den < repeat.num
    THEN LET rest == repeatLoop(media, repeat, i + 1, PlusOne(currentNumber))
         IN  [segments |-> <<Replace(media, NumberToken, NumberToString(currentNumber))>>
                           \o rest.segments,
              currentNumber |-> rest.currentNumber]
    ELSE [segments |-> <<>>, currentNumber |-> currentNumber]

RECURSIVE timelineLoop(_, _, _)
\* for (const entry of template.timeline) { ... } from entry k on.
timelineLoop(template, k, currentNumber) ==
    IF k > Len(template.timeline) THEN <<>>
    ELSE LET done == repeatLoop(template.media, repeatOf(template.timeline[k]), 0,
                                entryStart(template, currentNumber))
         IN  done.segments \o timelineLoop(template, k + 1, done.currentNumber)

\* Faulty variant: the media template is not checked for the $Number$ token.
buildSegmentUrls_Unchecked(template) ==
    [initialization |-> template.initialization,
     segments |-> timelineLoop(template, 1, template.startNumber)]

buildSegmentUrls(template) ==
    IF ~Includes(template.media, NumberToken) THEN Null
    ELSE [initialization |-> template.initialization,
          segments |-> timelineLoop(template, 1, template.startNumber)]

RECURSIVE parseTimeline_KeepsAll(_)
\* Faulty variant: the test of d is missing, every <S> element is pushed.
parseTimeline_KeepsAll(elements) ==
    IF elements = <<>> THEN <<>>
    ELSE LET d == Number(OrElse(elements[1].d, <<"0">>))
             r == Number(OrElse(elements[1].r, <<"0">>))
         IN  << [d |-> d, r |-> IF IsFinite(r) THEN r ELSE Num(0, 1)] >>
             \o parseTimeline_KeepsAll(Tail(elements))

RECURSIVE parseTimeline(_)
\* The loop over the <S> elements: entries with a finite d > 0, in order, r
\* defaulting to 0 when absent or not finite.
parseTimeline(elements) ==
    IF elements = <<>> THEN <<>>
    ELSE LET d == Number(OrElse(elements[1].d, <<"0">>))
             r == Number(OrElse(elements[1].r, <<"0">>))
         IN  (IF ~IsFinite(d) \/ d.num <= 0 THEN <<>>
              ELSE << [d |-> d, r |-> IF IsFinite(r) THEN r ELSE Num(0, 1)] >>)
             \o parseTimeline(Tail(elements))

parseMpdSegmentUrls(doc) ==
    IF ~doc.hasTemplate THEN Null
    ELSE LET initialization == doc.attrs.initialization
             media == doc.attrs.media
             startNumber == Number(OrElse(doc.attrs.startNumber, <<"1">>))
         IN  IF Falsy(initialization) \/ Falsy(media) THEN Null
             ELSE IF ~doc.hasTimeline \/ doc.elements = <<>> THEN Null
             ELSE LET timeline == parseTimeline(doc.elements)
                  IN  IF timeline = <<>> THEN Null
                      ELSE buildSegmentUrls(
                             [initialization |-> initialization,
                              media |-> media,
                              startNumber |-> IF IsFinite(startNumber) /\ Positive(startNumber)
                                              THEN startNumber ELSE Num(1, 1),
                              timeline |-> timeline])

----------------------------------------------------------------------------
(* manifest: decodeManifest.  A text is a sequence of characters: the        *)
(* printable ASCII characters as themselves, the others by name ("U+FEFF").  *)
(* A Buffer is a sequence of bytes.                                          *)

\* The characters U+0020 .. U+007E, in code order (U+0060 by name).
Printable ==
    << " ", "!", "\"", "#", "$", "%", "&", "'", "(", ")", "*", "+", ",", "-", ".", "/",
       "0", "1", "2", "3", "4", "5", "6", "7", "8", "9", ":", ";", "<", "=", ">", "?",
       "@", "A", "B", "C", "D", "E", "F", "G", "H", "I", "J", "K", "L", "M", "N", "O",
       "P", "Q", "R", "S", "T", "U", "V", "W", "X", "Y", "Z", "[", "\\", "]", "^", "_",
       "U+0060", "a", "b", "c", "d", "e", "f", "g", "h", "i", "j", "k", "l", "m", "n", "o",
       "p", "q", "r", "s", "t", "u", "v", "w", "x", "y", "z", "{", "|", "}", "~" >>

\* The character of a code below 0x80.
CharOf(code) ==
    IF code \in 32..126 THEN Printable[code - 31]
    ELSE IF code = 9 THEN "\t"
    ELSE IF code = 10 THEN "\n"
    ELSE IF code = 11 THEN "U+000B"
    ELSE IF code = 12 THEN "\f"
    ELSE IF code = 13 THEN "\r"
    ELSE "U+0000"

\* The base64 digits, in value order.
Base64Alphabet ==
    << "A", "B", "C", "D", "E", "F", "G", "H", "I", "J", "K", "L", "M", "N", "O", "P",
       "Q", "R", "S", "T", "U", "V", "W", "X", "Y", "Z", "a", "b", "c", "d", "e", "f",
       "g", "h", "i", "j", "k", "l", "m", "n", "o", "p", "q", "r", "s", "t", "u", "v",
       "w", "x", "y", "z", "0", "1", "2", "3", "4", "5", "6", "7", "8", "9", "+", "/" >>

\* The value of a base64 digit, of either alphabet (RFC 4648 sections 4 and 5);
\* 64 for any other character.
unbase64(c) ==
    IF c = "-" THEN 62
    ELSE IF c = "_" THEN 63
    ELSE IF \E v \in 1..64 : Base64Alphabet[v] = c
         THEN (CHOOSE v \in 1..64 : Base64Alphabet[v] = c) - 1
    ELSE 64

\* Buffer.from(text, "base64"): characters that are not base64 digits are
\* skipped, the first "=" ends the data, and a last group of two or three
\* digits gives one or two bytes.  No input makes it throw.
Base64Decode(text) ==
    LET pads == { i \in 1..Len(text) : text[i] = "=" }
        stop == IF pads = {} THEN Len(text) + 1 ELSE CHOOSE i \in pads : \A j \in pads : i <= j
        IsDigitOfBase64(c) == unbase64(c) < 64
        digits == SelectSeq(SubSeq(text, 1, stop - 1), IsDigitOfBase64)
        RECURSIVE groups(_)
        groups(k) ==
            LET left == Len(digits) - k + 1
                v(i) == unbase64(digits[k + i])
            IN  IF left < 2 THEN <<>>
                ELSE <<v(0) * 4 + v(1) \div 16>>
                     \o (IF left < 3 THEN <<>>
                         ELSE <<(v(1) % 16) * 16 + v(2) \div 4>>
                              \o (IF left < 4 THEN <<>>
                                  ELSE <<(v(2) % 4) * 64 + v(3)>> \o groups(k + 4)))
    IN  groups(1)

RECURSIVE Utf8Decode(_)
\* buffer.toString("utf8"): a byte below 0x80 is its character, EF BB BF is
\* U+FEFF (not removed), C2 A0 is U+00A0, and a byte that starts no valid
\* sequence is U+FFFD.  Other multi-byte sequences are not among the inputs.
Utf8Decode(bytes) ==
    IF bytes = <<>> THEN <<>>
    ELSE IF bytes[1] < 128 THEN <<CharOf(bytes[1])>> \o Utf8Decode(Tail(bytes))
    ELSE IF Len(bytes) >= 3 /\ SubSeq(bytes, 1, 3) = <<239, 187, 191>>
         THEN <<"U+FEFF">> \o Utf8Decode(SubSeq(bytes, 4, Len(bytes)))
    ELSE IF Len(bytes) >= 2 /\ SubSeq(bytes, 1, 2) = <<194, 160>>
         THEN <<"U+00A0">> \o Utf8Decode(SubSeq(bytes, 3, Len(bytes)))
    ELSE <<"U+FFFD">> \o Utf8Decode(Tail(bytes))

\* The characters String.prototype.trim removes (those of the model's texts).
WhiteSpace == {" ", "\t", "\n", "\r", "\f", "U+000B", "U+00A0", "U+FEFF"}

\* text.trim()
Trim(text) ==
    LET inked == { i \in 1..Len(text) : text[i] \notin WhiteSpace }
    IN  IF inked = {} THEN <<>>
        ELSE SubSeq(text, CHOOSE i \in inked : \A j \in inked : i <= j,
                          CHOOSE i \in inked : \A j \in inked : i >= j)

\* text.startsWith(c) for a single character c
StartsWith(text, c) == text # <<>> /\ text[1] = c

\* A parsed JSON value is a record tagged with its typeof/kind.
JsUndefined == [t |-> "undefined"]

\* The characters JSON allows between tokens.
JsonWhiteSpace == {" ", "\t", "\n", "\r"}

\* JSON.parse(text): the value, or threw (a SyntaxError).  Number literals with
\* an exponent and \u escapes in strings are not among the inputs.
JsonParse(text) ==
    LET n == Len(text)
        Fail == [ok |-> FALSE, value |-> JsUndefined, next |-> 0]
        Done(value, next) == [ok |-> TRUE, value |-> value, next |-> next]
        At(i, c) == i <= n /\ text[i] = c
        Literal(i, word) == i + Len(word) - 1 <= n /\ SubSeq(text, i, i + Len(word) - 1) = word
        RECURSIVE skip(_)
        skip(i) == IF i <= n /\ text[i] \in JsonWhiteSpace THEN skip(i + 1) ELSE i
        RECURSIVE digits(_)
        digits(i) == IF i <= n /\ IsDigit(text[i]) THEN digits(i + 1) ELSE i
        number(i) ==
            LET a == IF At(i, "-") THEN i + 1 ELSE i
                b == digits(a)
                c == IF At(b, ".") THEN digits(b + 1) ELSE b
            IN  IF b = a \/ (text[a] = "0" /\ b > a + 1) \/ (At(b, ".") /\ c = b + 1)
                THEN Fail
                ELSE Done([t |-> "number", n |-> Number(SubSeq(text, i, c - 1))], c)
        RECURSIVE string(_, _)
        string(i, acc) ==
            IF i > n THEN Fail
            ELSE IF text[i] = "\"" THEN Done([t |-> "string", s |-> acc], i + 1)
            ELSE IF text[i] = "\\"
                 THEN IF i + 1 <= n /\ text[i + 1] \in {"\"", "\\", "/"}
                      THEN string(i + 2, Append(acc, text[i + 1]))
                      ELSE IF At(i + 1, "n") THEN string(i + 2, Append(acc, "\n"))
                      ELSE IF At(i + 1, "t") THEN string(i + 2, Append(acc, "\t"))
                      ELSE IF At(i + 1, "r") THEN string(i + 2, Append(acc, "\r"))
                      ELSE Fail
            ELSE IF text[i] \in {"\t", "\n", "\r", "\f", "U+000B", "U+0000"} THEN Fail
            ELSE string(i + 1, Append(acc, text[i]))
        RECURSIVE value(_), elements(_, _), members(_, _, _)
        value(i) ==
            LET j == skip(i)
            IN  IF j > n THEN Fail
                ELSE IF text[j] = "{"
                     THEN IF At(skip(j + 1), "}")
                          THEN Done([t |-> "object", keys |-> <<>>, vals |-> <<>>], skip(j + 1) + 1)
                          ELSE members(j + 1, <<>>, <<>>)
                ELSE IF text[j] = "["
                     THEN IF At(skip(j + 1), "]")
                          THEN Done([t |-> "array", items |-> <<>>], skip(j + 1) + 1)
                          ELSE elements(j + 1, <<>>)
                ELSE IF text[j] = "\"" THEN string(j + 1, <<>>)
                ELSE IF text[j] = "-" \/ IsDigit(text[j]) THEN number(j)
                ELSE IF Literal(j, <<"n", "u", "l", "l">>) THEN Done([t |-> "null"], j + 4)
                ELSE IF Literal(j, <<"t", "r", "u", "e">>)
                     THEN Done([t |-> "boolean", b |-> TRUE], j + 4)
                ELSE IF Literal(j, <<"f", "a", "l", "s", "e">>)
                     THEN Done([t |-> "boolean", b |-> FALSE], j + 5)
                ELSE Fail
        elements(i, items) ==
            LET item == value(i)
                k == skip(item.next)
            IN  IF ~item.ok THEN Fail
                ELSE IF At(k, ",") THEN elements(k + 1, Append(items, item.value))
                ELSE IF At(k, "]")
                     THEN Done([t |-> "array", items |-> Append(items, item.value)], k + 1)
                ELSE Fail
        members(i, keys, vals) ==
            LET j == skip(i)
                key == IF At(j, "\"") THEN string(j + 1, <<>>) ELSE Fail
                colon == skip(key.next)
                val == IF key.ok /\ At(colon, ":") THEN value(colon + 1) ELSE Fail
                k == skip(val.next)
            IN  IF ~val.ok THEN Fail
                ELSE IF At(k, ",")
                     THEN members(k + 1, Append(keys, key.value.s), Append(vals, val.value))
                ELSE IF At(k, "}")
                     THEN Done([t |-> "object", keys |-> Append(keys, key.value.s),
                                vals |-> Append(vals, val.value)], k + 1)
                ELSE Fail
        top == value(1)
    IN  IF top.ok /\ skip(top.next) > n
        THEN [threw |-> FALSE, value |-> top.value]
        ELSE [threw |-> TRUE, value |-> JsUndefined]

\* object[key] for a parsed JSON value that is not null: of an object the
\* value of the last member of that name, of an array the element of that
\* index, of a string the character of that index, else undefined.
Property(object, key) ==
    IF object.t = "object"
    THEN LET at == { i \in 1..Len(object.keys) : object.keys[i] = key }
         IN  IF at = {} THEN JsUndefined
             ELSE object.vals[CHOOSE i \in at : \A j \in at : i >= j]
    ELSE IF object.t = "array" /\ key = <<"0">>
         THEN IF object.items = <<>> THEN JsUndefined ELSE object.items[1]
    ELSE IF object.t = "string" /\ key = <<"0">>
         THEN IF object.s = <<>> THEN JsUndefined ELSE [t |-> "string", s |-> <<object.s[1]>>]
    ELSE JsUndefined

\* Faulty variant: only undefined takes the early return.
Not_OnlyUndefined(value) == value.t = "undefined"

\* !value
Not(value) ==
    \/ value.t \in {"undefined", "null"}
    \/ value.t = "boolean" /\ ~value.b
    \/ value.t = "number" /\ (value.n.nan \/ value.n.num = 0)
    \/ value.t = "string" /\ value.s = <<>>

\* What a block of decodeManifest ends with: a returned value, or an exception.
Returned(value) == [threw |-> FALSE, value |-> value]

Thrown == [threw |-> TRUE, value |-> Null]

\* The body of the try block: JSON.parse may throw, reading `urls` of null
\* throws a TypeError, `?.` gives undefined for urls null or undefined.
tryBlock(decodedText) ==
    LET parsed == JsonParse(decodedText)
        payload == parsed.value
        urls == Property(payload, <<"u", "r", "l", "s">>)
        url == IF urls.t \in {"undefined", "null"} THEN JsUndefined
               ELSE Property(urls, <<"0">>)
    IN  IF parsed.threw \/ payload.t = "null" THEN Thrown
        ELSE IF Not(url) THEN Returned(Null)
        ELSE Returned([kind |-> "url", url |-> url])

\* Faulty variant: the exception of the try block is not caught.
catchBlock_Rethrows(outcome) == outcome

\* catch { return null; }
catchBlock(outcome) == IF outcome.threw THEN Returned(Null) ELSE outcome

\* The first statements of decodeManifest: decodedBuffer and decodedText.
decodeText(text) ==
    LET decodedBuffer == Base64Decode(text)
    IN  [buffer |-> decodedBuffer, text |-> Trim(Utf8Decode(decodedBuffer))]

\* Faulty variant: the Mpd variant carries the bytes of the trimmed text.
mpdResult_Trimmed(d) ==
    Returned([kind |-> "mpd",
              buffer |-> LET inked == { i \in 1..Len(d.buffer) : d.buffer[i] > 32 }
                         IN  SubSeq(d.buffer, CHOOSE i \in inked : \A j \in inked : i <= j,
                                              CHOOSE i \in inked : \A j \in inked : i >= j)])

\* return { kind: "mpd", buffer: decodedBuffer }
mpdResult(d) == Returned([kind |-> "mpd", buffer |-> d.buffer])

decodeManifest(text) ==
    LET d == decodeText(text)
    IN  IF StartsWith(d.text, "<") THEN mpdResult(d) ELSE catchBlock(tryBlock(d.text))

----------------------------------------------------------------------------
(* The inputs of parseMpdSegmentUrls *)

\* Most <S> elements of a timeline.
MaxElements == 2

\* "seg-$Number$.m4s"
MediaTemplate == <<"s", "e", "g", "-">> \o NumberToken \o <<".", "m", "4", "s">>

InitTemplate == <<"i", "n", "i", "t", ".", "m", "p", "4">>

GoodAttrs ==
    [initialization |-> InitTemplate, media |-> MediaTemplate, startNumber |-> <<"1">>]

\* The attributes of the SegmentTemplate tag: the well-formed ones, and those
\* with one attribute absent, empty or unusual.
TemplateAttrs ==
    { GoodAttrs,
      [GoodAttrs EXCEPT !.initialization = Undefined],
      [GoodAttrs EXCEPT !.media = Undefined],
      [GoodAttrs EXCEPT !.media = <<>>],
      [GoodAttrs EXCEPT !.media = <<"s", "e", "g">>],
      [GoodAttrs EXCEPT !.media = NumberToken \o <<"/">> \o NumberToken] }
    \cup
    { [GoodAttrs EXCEPT !.startNumber = n] :
        n \in { Undefined, <<"7">>, <<"0">>, <<"-", "2">>, <<"1", ".", "5">>, <<"x">> } }

\* The attributes of an <S> element.
ElementAttrs ==
    [ d : { Undefined, <<"1", "0", "0", "0">>, <<"0">>, <<"-", "5">>, <<"x">> },
      r : { Undefined, <<"2">>, <<"-", "1">>, <<"0", ".", "5">> } ]

ElementSeqs == UNION { [1..n -> ElementAttrs] : n \in 0..MaxElements }

NoDocument == [hasTemplate |-> FALSE, attrs |-> GoodAttrs, hasTimeline |-> FALSE,
               elements |-> <<>>]

MpdDocs ==
    { NoDocument }
    \cup { [hasTemplate |-> TRUE, attrs |-> a, hasTimeline |-> FALSE, elements |-> <<>>] :
            a \in {GoodAttrs} }
    \cup { [hasTemplate |-> TRUE, attrs |-> a, hasTimeline |-> TRUE, elements |-> es] :
            a \in TemplateAttrs, es \in ElementSeqs }

----------------------------------------------------------------------------
(* The inputs of decodeManifest *)

\* The code of a character below 0x80.
CodeOf(c) == CHOOSE code \in 0..127 : CharOf(code) = c

\* The UTF-8 bytes of an ASCII text.
TextBytes(text) == [i \in 1..Len(text) |-> CodeOf(text[i])]

RECURSIVE Base64Encode(_)
\* The padded base64 text of a byte sequence (RFC 4648 section 4).
Base64Encode(bytes) ==
    LET digit(v) == Base64Alphabet[v + 1]
        b(i) == IF i <= Len(bytes) THEN bytes[i] ELSE 0
    IN  IF bytes = <<>> THEN <<>>
        ELSE << digit(b(1) \div 4),
                digit((b(1) % 4) * 16 + b(2) \div 16),
                IF Len(bytes) >= 2 THEN digit((b(2) % 16) * 4 + b(3) \div 64) ELSE "=",
                IF Len(bytes) >= 3 THEN digit(b(3) % 64) ELSE "=" >>
             \o (IF Len(bytes) > 3 THEN Base64Encode(SubSeq(bytes, 4, Len(bytes))) ELSE <<>>)

\* JSON texts for the value of `urls`: [], ["u"], ["u","v"], [""], [0], [null],
\* null, "uv", {"0":"u"}, [ "u" ].
UrlsValues ==
    { <<"[", "]">>,
      <<"[", "\"", "u", "\"", "]">>,
      <<"[", "\"", "u", "\"", ",", "\"", "v", "\"", "]">>,
      <<"[", "\"", "\"", "]">>,
      <<"[", "0", "]">>,
      <<"[", "n", "u", "l", "l", "]">>,
      <<"n", "u", "l", "l">>,
      <<"\"", "u", "v", "\"">>,
      <<"{", "\"", "0", "\"", ":", "\"", "u", "\"", "}">>,
      <<"[", " ", "\"", "u", "\"", " ", "]">> }

\* JSON texts: an object with `urls`, with `urls` after other members and twice,
\* objects without it, and values that are not objects.
JsonTexts ==
    { <<"{", "\"", "u", "r", "l", "s", "\"", ":">> \o v \o <<"}">> : v \in UrlsValues }
    \cup
    { <<"{", "\"", "a", "\"", ":", "1", ",", "\"", "u", "r", "l", "s", "\"", ":", "[", "\"", "u", "\"", "]", "}">>,
      <<"{", "\"", "u", "r", "l", "s", "\"", ":", "[", "\"", "u", "\"", "]", ",", "\"", "u", "r", "l", "s", "\"", ":", "[", "]", "}">>,
      <<"{", "}">>,
      <<"{", "\"", "u", "r", "l", "\"", ":", "[", "\"", "u", "\"", "]", "}">>,
      <<"n", "u", "l", "l">>,
      <<"5">>,
      <<"-", "0", ".", "5">>,
      <<"t", "r", "u", "e">>,
      <<"\"", "u", "r", "l", "s", "\"">>,
      <<"[", "1", "]">>,
      <<"[", "\"", "u", "\"", "]">> }

\* Texts that start with "<": an MPD document, a lone "<".
XmlTexts ==
    { <<"<", "M", "P", "D", "/", ">">>,
      <<"<">> }

\* Texts that are neither JSON nor XML: empty, words, JSON cut short, JSON
\* followed by more, XML after a word.
OtherTexts ==
    { <<>>,
      <<"h", "e", "l", "l", "o">>,
      <<"{", "\"", "u", "r", "l", "s", "\"", ":", "[", "\"", "u", "\"", "]">>,
      <<"{", "\"", "u", "r", "l", "s", "\"", ":", "[", "\"", "u", "\"", "]", "}", "x">>,
      <<"{", "\"", "u", "r", "l", "s", "\"", ":", "[", "u", "]", "}">>,
      <<"x", "<", "M", "P", "D", "/", ">">>,
      <<"{", "\"", "u", "r", "l", "s", "\"", ":", "[", "\"", "u", "\"", ",", "]", "}">> }

\* Each text bare and between white space, encoded.
EncodedTexts ==
    { Base64Encode(TextBytes(before \o text \o after)) :
        before \in { <<>>, <<" ">>, <<"\n", "\t">> },
        after \in { <<>>, <<"\r", "\n">> },
        text \in JsonTexts \cup XmlTexts \cup OtherTexts }

\* Manifests of other shapes: an MPD document after a byte order mark and
\* after a no-break space, bytes that are not UTF-8 (FF FE), and texts that
\* are not well-formed base64: no digits at all, "<MPD/>" with a character
\* outside the alphabet, with a line break, without padding, with digits
\* after the padding, a single digit, and ["u"]-JSON in the URL-safe alphabet.
OtherManifests ==
    { Base64Encode(<<239, 187, 191>> \o TextBytes(<<"<", "M", "P", "D", "/", ">">>)),
      Base64Encode(<<194, 160>> \o TextBytes(<<"<", "M", "P", "D", "/", ">">>)),
      Base64Encode(<<255, 254>>),
      Base64Encode(<<255>> \o TextBytes(<<"<", "M", "P", "D", "/", ">">>)),
      <<"!", "!", "!", "!">>,
      <<"P", "E", "1", "Q", "*", "R", "C", "8", "+">>,
      <<"P", "E", "1", "Q", "\n", "R", "C", "8", "+">>,
      <<"P", "A">>,
      <<"P", "A", "=", "=", "P", "E", "1", "Q">>,
      <<"P">>,
      <<"e", "y", "J", "1", "c", "m", "x", "z", "I", "j", "p", "b", "I", "n", "5", "-", "P", "y", "J", "d", "f", "Q", "=", "=">> }

Manifests == EncodedTexts \cup OtherManifests

----------------------------------------------------------------------------
(* The inputs of applyFlacTags *)

\* Most metadata blocks an input chain is built from.
MaxBlocks == 3

\* The length of the large cover: the first payload length whose block no longer
\* fits the 24-bit length field of a block header.
BigCoverLen == 16777216

\* How many bytes more than are present a truncated last header declares.
Excess == 5

\* Block types of the input chains: STREAMINFO, PADDING, VORBIS_COMMENT, PICTURE.
InputBlockTypes == {0, 1, 4, 6}

\* The payload of the i-th input block, of type t: one or two bytes that name it.
InputPayload(t, i) == [j \in 1..(1 + (i % 2)) |-> 16 * i + t]

\* The first audio frame bytes that follow the chain (a frame sync code).
AudioBytes == <<255, 248>>

RECURSIVE ChainBytes(_, _, _, _)
\* The bytes of a chain of blocks of the given types, from block i on: block
\* `lastAt` carries the is-last flag (0: none does), and the final block
\* declares `excess` bytes more than its payload holds.
ChainBytes(types, lastAt, excess, i) ==
    IF i > Len(types) THEN <<>>
    ELSE LET payload == InputPayload(types[i], i)
             declared == Len(payload) + (IF i = Len(types) THEN excess ELSE 0)
         IN  Cat(FromBytes(<< (IF i = lastAt THEN 128 ELSE 0) + types[i],
                              0, 0, declared >> \o payload),
                 ChainBytes(types, lastAt, excess, i + 1))

TypeSeqs == UNION { [1..n -> InputBlockTypes] : n \in 0..MaxBlocks }

\* Files that start with the magic: every chain, followed by audio bytes, and
\* every non-empty chain cut short inside its final block.
FlacSources ==
    { Cat(Cat(FromBytes(FLAC_HEADER_BYTES), ChainBytes(ts, l, 0, 1)), FromBytes(AudioBytes)) :
        ts \in TypeSeqs, l \in 0..MaxBlocks }
    \cup
    { Cat(FromBytes(FLAC_HEADER_BYTES), ChainBytes(ts, l, Excess, 1)) :
        ts \in TypeSeqs \ {<<>>}, l \in 0..MaxBlocks }

\* Files without the magic: empty, shorter than the magic, a wrong fourth byte
\* before a well-formed chain, an Ogg page.
NonFlacSources ==
    { <<>>,
      FromBytes(<<102, 76, 97>>),
      Cat(FromBytes(<<102, 76, 97, 99>>), ChainBytes(<<0>>, 1, 0, 1)),
      FromBytes(<<79, 103, 103, 83, 0, 2>>) }

Sources == FlacSources \cup NonFlacSources

NoFields == [f \in MetadataFields |-> <<>>]

\* metadata: null, an object without a non-empty field, a title ("So") with a
\* track number ("7").
Metadatas ==
    { Null,
      NoFields,
      [NoFields EXCEPT !["title"] = <<83, 111>>, !["trackNumber"] = <<55>>] }

\* "image/jpeg"
MimeJpeg == <<105, 109, 97, 103, 101, 47, 106, 112, 101, 103>>

\* cover: null, an empty buffer, a small picture (of type "image/png"), a
\* picture of BigCoverLen bytes.
Covers ==
    { Null,
      [buffer |-> <<>>, mimeType |-> MimeJpeg],
      [buffer |-> FromBytes(<<255, 216, 255>>),
       mimeType |-> <<105, 109, 97, 103, 101, 47, 112, 110, 103>>],
      [buffer |-> <<Run(255, BigCoverLen)>>, mimeType |-> MimeJpeg] }

----------------------------------------------------------------------------
(* Each specification below runs one component; the variables of the other  *)
(* components stay at these values.                                         *)

FlacIdle ==
    /\ source = <<>>
    /\ metadata = Null
    /\ cover = Null
    /\ tagged = Null
    /\ retagged = Null
    /\ comment = <<>>

MpdIdle == mpd = NoDocument /\ plan = Null

ManifestIdle ==
    /\ manifest = <<>>
    /\ decoded = Null
    /\ result = Null
    /\ jsonParsed = FALSE

BlobIdle ==
    /\ requiresConversion = FALSE
    /\ delivery = Null
    /\ errors = <<>>
    /\ notice = ""

BatchIdle ==
    /\ tracks = <<>>
    /\ cursor = 1
    /\ counts = [downloaded |-> 0, skipped |-> 0, failed |-> 0]
    /\ exitCode = 0
    /\ log = <<>>

DownloadIdle ==
    /\ shouldTag = FALSE
    /\ files = {}
    /\ completed = FALSE
    /\ thrown = Null
    /\ warnings = <<>>
    /\ unlinked = {}

SessionIdle ==
    /\ sessionIndex = 0
    /\ sessionLength = 0
    /\ currentIndex = 0
    /\ requests = <<>>

SearchIdle ==
    /\ resultsCache = {}
    /\ resultsInFlight = {}
    /\ searches = <<>>

LoaderIdle ==
    /\ ffmpegPromise = Null
    /\ instances = 0
    /\ loadCalls = 0
    /\ callers = <<>>

EarlierIdle == FlacIdle /\ MpdIdle /\ ManifestIdle /\ BlobIdle /\ BatchIdle

LaterIdle == DownloadIdle /\ SessionIdle /\ SearchIdle /\ LoaderIdle

----------------------------------------------------------------------------
(* The caller of applyFlacTags: tags a file, then tags the result again. *)

InitFlac ==
    /\ pc = "input"
    /\ source \in Sources
    /\ metadata \in Metadatas
    /\ cover \in Covers
    /\ tagged = Null
    /\ retagged = Null
    /\ comment = <<>>
    /\ MpdIdle
    /\ ManifestIdle
    /\ BlobIdle
    /\ BatchIdle
    /\ LaterIdle

\* const tagged = applyFlacTags(source, metadata, cover)
Tag ==
    /\ pc = "input"
    /\ tagged' = applyFlacTags(source, metadata, cover)
    /\ pc' = "tagged"
    /\ UNCHANGED <<source, metadata, cover, retagged, comment, mpdVars, manifestVars, blobVars, batchVars,
                   laterVars>>

\* applyFlacTags(tagged, metadata, cover): the same tags applied to the result.
Retag ==
    /\ pc = "tagged"
    /\ retagged' = applyFlacTags(tagged.bytes, metadata, cover)
    /\ pc' = "retagged"
    /\ UNCHANGED <<source, metadata, cover, tagged, comment, mpdVars, manifestVars, blobVars, batchVars,
                   laterVars>>

\* A later write of the caller into the buffer it was given back: the first byte
\* is cleared.  The write shows in `source` when the buffer returned is the
\* `source` object itself.
WriteOutput ==
    /\ pc = "tagged"
    /\ BLen(tagged.bytes) > 0
    /\ LET written == Cat(FromBytes(<<0>>), Drop(tagged.bytes, 1))
       IN  /\ tagged' = [tagged EXCEPT !.bytes = written]
           /\ source' = IF tagged.same THEN written ELSE source
    /\ pc' = "written"
    /\ UNCHANGED <<metadata, cover, retagged, comment, mpdVars, manifestVars, blobVars, batchVars,
                   laterVars>>

NextFlac == Tag \/ Retag \/ WriteOutput

SpecFlac == InitFlac /\ [][NextFlac]_vars

----------------------------------------------------------------------------
(* buildVorbisCommentBlock on its own, over more metadata objects. *)

\* A value of 250 bytes: with its key the entry is longer than one length byte
\* can tell.
LongValue == [i \in 1..250 |-> 97]

\* Metadata objects: each field empty or one of two values ("So", "T", "Ab",
\* "B", ..., the UTF-8 bytes of "É" in the date).
CommentMetadatas ==
    [ title : { <<>>, <<83, 111>>, <<84>> },
      artist : { <<>>, <<65, 98>>, <<66>> },
      album : { <<>>, <<76, 80>>, LongValue },
      date : { <<>>, <<50, 48, 50, 52>>, <<195, 137>> },
      trackNumber : { <<>>, <<55>>, <<49, 50>> } ]

InitComment ==
    /\ pc = "fields"
    /\ metadata \in CommentMetadatas
    /\ comment = <<>>
    /\ source = <<>>
    /\ cover = Null
    /\ tagged = Null
    /\ retagged = Null
    /\ MpdIdle
    /\ ManifestIdle
    /\ BlobIdle
    /\ BatchIdle
    /\ LaterIdle

\* data: buildVorbisCommentBlock(metadata)
BuildComment ==
    /\ pc = "fields"
    /\ comment' = buildVorbisCommentBlock(metadata)
    /\ pc' = "built"
    /\ UNCHANGED <<source, metadata, cover, tagged, retagged, mpdVars, manifestVars, blobVars, batchVars,
                   laterVars>>

NextComment == BuildComment

SpecComment == InitComment /\ [][NextComment]_vars

----------------------------------------------------------------------------
(* fetchDownloadBlob, from the request of the audio bytes on.  What the      *)
(* network, ffmpeg and the runtime do is the choice of the environment: a    *)
(* request succeeds or fails, convertMp4ToFlac and applyFlacTags return or   *)
(* throw.  `source` is the FLAC file fetched, or the one the conversion      *)
(* gives.                                                                    *)

\* FLAC files to deliver: a chain of two blocks with audio, one cut short in
\* its last block, and a file that is no FLAC file.
BlobSources ==
    { Cat(Cat(FromBytes(FLAC_HEADER_BYTES), ChainBytes(<<0, 1>>, 2, 0, 1)), FromBytes(AudioBytes)),
      Cat(FromBytes(FLAC_HEADER_BYTES), ChainBytes(<<0, 4>>, 2, Excess, 1)),
      FromBytes(<<79, 103, 103, 83, 0, 2>>) }

\* new Blob([bytes], { type: "audio/flac" })
Blob(bytes) == [kind |-> "blob", bytes |-> bytes]

\* The promise rejects with the error thrown first.
Rejected(error) == [kind |-> "rejected", error |-> error]

InitBlob ==
    /\ pc = "request"
    /\ requiresConversion \in BOOLEAN
    /\ source \in BlobSources
    /\ metadata \in Metadatas
    /\ cover \in Covers
    /\ delivery = Null
    /\ errors = <<>>
    /\ notice = ""
    /\ tagged = Null
    /\ retagged = Null
    /\ comment = <<>>
    /\ MpdIdle
    /\ ManifestIdle
    /\ BatchIdle
    /\ LaterIdle

\* Lines 1042-1062 and 1087-1092: the audio bytes are requested; a response
\* that is not ok is thrown outside any try.
FetchAudio ==
    /\ pc = "request"
    /\ \E ok \in BOOLEAN :
         IF ok
         THEN /\ pc' = IF requiresConversion THEN "convert" ELSE "tag"
              /\ UNCHANGED <<delivery, errors, laterVars>>
         ELSE /\ errors' = Append(errors, "fetch")
              /\ delivery' = Rejected("fetch")
              /\ pc' = "settled"
    /\ UNCHANGED <<requiresConversion, notice, flacVars, mpdVars, manifestVars, batchVars, laterVars>>

\* Line 1066: convertMp4ToFlac inside the first try.
Convert ==
    /\ pc = "convert"
    /\ \E ok \in BOOLEAN :
         IF ok
         THEN pc' = "tag" /\ UNCHANGED errors
         ELSE errors' = Append(errors, "convert") /\ pc' = "fallbackConvert"
    /\ UNCHANGED <<requiresConversion, delivery, notice, flacVars, mpdVars, manifestVars,
                   batchVars,
                   laterVars>>

\* Lines 1067-1069 and 1095-1097: applyFlacTags with the cover; its result is
\* returned, its exception enters the catch.
TagWithCover ==
    /\ pc = "tag"
    /\ \E throws \in BOOLEAN :
         IF throws
         THEN /\ errors' = Append(errors, "tag")
              /\ pc' = IF requiresConversion THEN "fallbackConvert" ELSE "fallbackTag"
              /\ UNCHANGED delivery
         ELSE /\ delivery' = Blob(applyFlacTags(source, metadata, cover).bytes)
              /\ pc' = "settled"
              /\ UNCHANGED errors
    /\ UNCHANGED <<requiresConversion, notice, flacVars, mpdVars, manifestVars, batchVars, laterVars>>

\* Line 1073: convertMp4ToFlac again, inside the catch; its exception makes the
\* inner catch throw the first error.
FallbackConvert ==
    /\ pc = "fallbackConvert"
    /\ \E ok \in BOOLEAN :
         IF ok
         THEN pc' = "fallbackTag" /\ UNCHANGED <<delivery, errors, laterVars>>
         ELSE /\ errors' = Append(errors, "convert")
              /\ delivery' = Rejected(errors[1])
              /\ pc' = "settled"
    /\ UNCHANGED <<requiresConversion, notice, flacVars, mpdVars, manifestVars, batchVars, laterVars>>

\* Lines 1074-1080 and 1101-1110: applyFlacTags without the cover.  When it
\* throws, the conversion path throws the first error and the direct path
\* returns the original buffer.
FallbackTag ==
    /\ pc = "fallbackTag"
    /\ \E throws \in BOOLEAN :
         IF ~throws
         THEN /\ delivery' = Blob(applyFlacTags(source, metadata, Null).bytes)
              /\ notice' = "Tagging failed for a track; delivered without cover art."
              /\ UNCHANGED errors
         ELSE /\ errors' = Append(errors, "tag")
              /\ IF requiresConversion
                 THEN delivery' = Rejected(errors[1]) /\ UNCHANGED notice
                 ELSE /\ delivery' = Blob(source)
                      /\ notice' = "Tagging failed; delivered original audio without metadata."
    /\ pc' = "settled"
    /\ UNCHANGED <<requiresConversion, flacVars, mpdVars, manifestVars, batchVars, laterVars>>

NextBlob == FetchAudio \/ Convert \/ TagWithCover \/ FallbackConvert \/ FallbackTag

SpecBlob == InitBlob /\ [][NextBlob]_vars

----------------------------------------------------------------------------
(* The batch loop of the command line: main, processTrack, getTrackStreamUrl *)
(* and downloadTrackFile.  A track of the model carries what its requests    *)
(* meet: whether it is cached, what is selected for it, whether the requests *)
(* succeed, the manifest the server sends, what the regular expressions of   *)
(* parseMpdSegmentUrls find in the decoded MPD text, how ffmpeg exits.       *)

\* Most tracks in the CSV file.
MaxTracks == 3

\* String(error) of the errors thrown under processTrack.
ErrorMessages ==
    [ request |-> << "E", "r", "r", "o", "r", ":", " ", "T", "r", "a", "c", "k", " ", "r",
                    "e", "q", "u", "e", "s", "t", " ", "f", "a", "i", "l", "e", "d", ":",
                    " ", "5", "0", "0", " " >>,
      file |-> << "E", "r", "r", "o", "r", ":", " ", "F", "i", "l", "e", " ", "d", "o",
                    "w", "n", "l", "o", "a", "d", " ", "f", "a", "i", "l", "e", "d", ":",
                    " ", "4", "0", "4", " " >>,
      mpd |-> << "E", "r", "r", "o", "r", ":", " ", "M", "P", "D", " ", "p", "a", "r",
                    "s", "i", "n", "g", " ", "f", "a", "i", "l", "e", "d", ";", " ", "u",
                    "n", "a", "b", "l", "e", " ", "t", "o", " ", "d", "e", "r", "i", "v",
                    "e", " ", "s", "e", "g", "m", "e", "n", "t", " ", "U", "R", "L", "s" >>,
      segment |-> << "E", "r", "r", "o", "r", ":", " ", "S", "e", "g", "m", "e", "n", "t",
                    " ", "d", "o", "w", "n", "l", "o", "a", "d", " ", "f", "a", "i", "l",
                    "e", "d", ":", " ", "4", "0", "4", " " >>,
      ffmpeg |-> << "E", "r", "r", "o", "r", ":", " ", "f", "f", "m", "p", "e", "g", " ",
                    "f", "a", "i", "l", "e", "d", " ", "(", "1", ")" >> ]

\* A track that is found, selected and downloaded from a direct URL.
UrlTrack ==
    [ cached |-> FALSE, selection |-> "track", requestOk |-> TRUE,
      manifest |-> Base64Encode(TextBytes(
          <<"{", "\"", "u", "r", "l", "s", "\"", ":", "[", "\"", "u", "\"", "]", "}">>)),
      doc |-> NoDocument, fetchOk |-> TRUE, ffmpegOk |-> TRUE ]

\* A track whose MPD manifest has a template and one valid timeline entry.
MpdTrack ==
    [ UrlTrack EXCEPT
        !.manifest = Base64Encode(TextBytes(<<"<", "M", "P", "D", ">">>)),
        !.doc = [hasTemplate |-> TRUE, attrs |-> GoodAttrs, hasTimeline |-> TRUE,
                 elements |-> << [d |-> <<"1", "0", "0", "0">>, r |-> Undefined] >>] ]

\* The tracks of the model: downloadable ones, one cached, one without a
\* selection, one whose manifest request fails, manifests that decode to null
\* ({"urls":[]} and plain text), MPD documents that cannot be parsed (no
\* template; no entry with a valid d), a segment that cannot be fetched, and
\* an ffmpeg run that fails.
Tracks ==
    { UrlTrack,
      MpdTrack,
      [UrlTrack EXCEPT !.cached = TRUE],
      [UrlTrack EXCEPT !.selection = "skip"],
      [UrlTrack EXCEPT !.requestOk = FALSE],
      [UrlTrack EXCEPT !.manifest = Base64Encode(TextBytes(
          <<"{", "\"", "u", "r", "l", "s", "\"", ":", "[", "]", "}">>))],
      [UrlTrack EXCEPT !.manifest = Base64Encode(TextBytes(<<"h", "e", "l", "l", "o">>))],
      [MpdTrack EXCEPT !.doc = NoDocument],
      [MpdTrack EXCEPT !.doc.elements = << [d |-> <<"0">>, r |-> <<"2">>] >>],
      [MpdTrack EXCEPT !.fetchOk = FALSE],
      [MpdTrack EXCEPT !.ffmpegOk = FALSE] }

\* How a call under main's try ends: the value returned and the line logged,
\* or the message of the error thrown.
Resolves(didDownload, said) ==
    [threw |-> FALSE, didDownload |-> didDownload, said |-> said, message |-> <<>>]

Throws(message) ==
    [threw |-> TRUE, didDownload |-> FALSE, said |-> "Error", message |-> message]

\* downloadTrackFile(track, stream): the file of a direct URL is fetched; an
\* MPD is parsed, its segments are fetched and ffmpeg converts them.
downloadTrackFile(track, stream) ==
    IF stream.kind = "url"
    THEN IF ~track.fetchOk THEN Throws(ErrorMessages.file) ELSE Resolves(TRUE, "Saved")
    ELSE LET segmentUrls == parseMpdSegmentUrls(track.doc)
         IN  IF segmentUrls = Null THEN Throws(ErrorMessages.mpd)
             ELSE IF ~track.fetchOk THEN Throws(ErrorMessages.segment)
             ELSE IF ~track.ffmpegOk THEN Throws(ErrorMessages.ffmpeg)
             ELSE Resolves(TRUE, "Saved")

\* processTrack(track), with getTrackStreamUrl inlined.
processTrack(track) ==
    IF track.cached THEN Resolves(FALSE, "Cached download found, skipping")
    ELSE IF track.selection = "skip" THEN Resolves(FALSE, "No suitable match selected")
    ELSE IF track.selection = "none" THEN Resolves(FALSE, "Marked as no match")
    ELSE IF ~track.requestOk THEN Throws(ErrorMessages.request)
    ELSE LET afterManifest(streamResult) ==
                 IF streamResult.threw THEN Throws(<<>>)
                 ELSE IF streamResult.value = Null
                      THEN Resolves(FALSE, "Manifest returned unsupported payload (xml?)")
                 ELSE downloadTrackFile(track, streamResult.value)
         IN  afterManifest(decodeManifest(track.manifest))

\* How processTrack ends for each track of the model.
Outcomes == [track \in Tracks |-> processTrack(track)]

\* Faulty variant: every error is thrown on to the outer catch.
isFatal_Any(message) == TRUE

\* String(error).includes("ffmpeg failed")
isFatal(message) ==
    Includes(message, << "f", "f", "m", "p", "e", "g", " ", "f", "a", "i", "l", "e", "d" >>)

InitBatch ==
    /\ pc = "loop"
    /\ tracks \in UNION { [1..n -> Tracks] : n \in 0..MaxTracks }
    /\ cursor = 1
    /\ counts = [downloaded |-> 0, skipped |-> 0, failed |-> 0]
    /\ exitCode = 0
    /\ log = <<>>
    /\ FlacIdle
    /\ MpdIdle
    /\ ManifestIdle
    /\ BlobIdle
    /\ LaterIdle

\* Lines 142-162: one iteration of the loop over the tracks.
Iterate ==
    /\ pc = "loop"
    /\ cursor <= Len(tracks)
    /\ \E outcome \in {Outcomes[tracks[cursor]]} :
           /\ log' = Append(log, [track |-> cursor, said |-> outcome.said,
                                  error |-> outcome.message])
           /\ IF ~outcome.threw
              THEN /\ counts' = IF outcome.didDownload
                                THEN [counts EXCEPT !.downloaded = @ + 1]
                                ELSE [counts EXCEPT !.skipped = @ + 1]
                   /\ cursor' = cursor + 1
                   /\ UNCHANGED <<pc, exitCode, laterVars>>
              ELSE /\ counts' = [counts EXCEPT !.failed = @ + 1]
                   /\ IF isFatal(outcome.message)
                      THEN pc' = "aborted" /\ exitCode' = 1 /\ UNCHANGED cursor
                      ELSE cursor' = cursor + 1 /\ UNCHANGED <<pc, exitCode, laterVars>>
    /\ UNCHANGED <<tracks, flacVars, mpdVars, manifestVars, blobVars, laterVars>>

\* Lines 164-168: the summary after the last track.
Summarise ==
    /\ pc = "loop"
    /\ cursor > Len(tracks)
    /\ pc' = "summary"
    /\ UNCHANGED <<tracks, cursor, counts, exitCode, log, flacVars, mpdVars, manifestVars,
                   blobVars,
                   laterVars>>

NextBatch == Iterate \/ Summarise

SpecBatch == InitBatch /\ [][NextBatch]_vars

\* Every await of the loop settles (a response or an error arrives, the child
\* process closes), so the loop takes its next step.
FairSpecBatch == SpecBatch /\ WF_vars(NextBatch)

----------------------------------------------------------------------------
(* The MPD branch of downloadTrackFile (track.ts): the manifest is written,  *)
(* parsed, its segments are fetched into one file, ffmpeg converts it, the    *)
(* result is renamed or tagged, and the finally block cleans up or warns.     *)
(* Whether a fetch, ffmpeg, the rename, the tagging or an unlink succeeds is  *)
(* the choice of the environment.                                             *)

\* The MPD documents downloaded: those with at most one <S> element.
DownloadDocs == { doc \in MpdDocs : Len(doc.elements) <= 1 }

InitDownload ==
    /\ pc = "manifest"
    /\ mpd \in DownloadDocs
    /\ plan = Null
    /\ shouldTag \in BOOLEAN
    /\ files = {}
    /\ completed = FALSE
    /\ thrown = Null
    /\ warnings = <<>>
    /\ unlinked = {}
    /\ FlacIdle
    /\ ManifestIdle
    /\ BlobIdle
    /\ BatchIdle
    /\ SessionIdle
    /\ SearchIdle
    /\ LoaderIdle

\* Lines 170-178: manifest.mpd is written, the MPD is parsed; without segment
\* URLs the error is thrown before the try statement is entered.
WriteManifest ==
    /\ pc = "manifest"
    /\ files' = files \cup {"manifest.mpd"}
    /\ plan' = parseMpdSegmentUrls(mpd)
    /\ IF plan' = Null
       THEN thrown' = ErrorMessages.mpd /\ pc' = "rejected"
       ELSE thrown' = thrown /\ pc' = "segments"
    /\ UNCHANGED <<mpd, shouldTag, completed, warnings, unlinked, flacVars, manifestVars,
                   blobVars, batchVars, sessionVars, searchVars, loaderVars>>

\* Lines 184-197: segments.mp4 is opened and the initialization and media
\* segments are fetched into it; a response that is not ok throws.
FetchSegments ==
    /\ pc = "segments"
    /\ files' = files \cup {"segments.mp4"}
    /\ \E failed \in 0..(1 + Len(plan.segments)) :
          IF failed = 0
          THEN thrown' = thrown /\ pc' = "ffmpeg"
          ELSE thrown' = ErrorMessages.segment /\ pc' = "finally"
    /\ UNCHANGED <<mpdVars, shouldTag, completed, warnings, unlinked, flacVars, manifestVars,
                   blobVars, batchVars, sessionVars, searchVars, loaderVars>>

\* Line 199: ffmpeg converts segments.mp4 into the temporary FLAC file.
RunFfmpeg ==
    /\ pc = "ffmpeg"
    /\ \E ok \in BOOLEAN :
          IF ok
          THEN files' = files \cup {"temp.flac"} /\ thrown' = thrown /\ pc' = "save"
          ELSE files' = files /\ thrown' = ErrorMessages.ffmpeg /\ pc' = "finally"
    /\ UNCHANGED <<mpdVars, shouldTag, completed, warnings, unlinked, flacVars, manifestVars,
                   blobVars, batchVars, sessionVars, searchVars, loaderVars>>

\* Lines 201-211: without metadata the temporary file is renamed; with
\* metadata it is tagged into the final file and unlinked.  `completed` is set
\* after either.
Save ==
    /\ pc = "save"
    /\ \E ok \in BOOLEAN :
          IF ok
          THEN /\ \E removed \in BOOLEAN :
                    files' = (IF ~shouldTag \/ removed THEN files \ {"temp.flac"} ELSE files)
                             \cup {"track.flac"}
               /\ completed' = TRUE
               /\ thrown' = thrown
          ELSE /\ files' = files
               /\ completed' = completed
               /\ thrown' = IF shouldTag THEN <<"t", "a", "g">> ELSE <<"r", "e", "n", "a", "m", "e">>
    /\ pc' = "finally"
    /\ UNCHANGED <<mpdVars, shouldTag, warnings, unlinked, flacVars, manifestVars,
                   blobVars, batchVars, sessionVars, searchVars, loaderVars>>

\* Lines 212-220: the finally block.  unlink is called on both paths when
\* `completed` is set (an unlink that fails is ignored); otherwise both paths
\* are named in a warning.
Finally ==
    /\ pc = "finally"
    /\ IF completed
       THEN /\ unlinked' = unlinked \cup {"manifest.mpd", "segments.mp4"}
            /\ \E removed \in SUBSET {"manifest.mpd", "segments.mp4"} :
                  files' = files \ removed
            /\ warnings' = warnings
       ELSE /\ warnings' = warnings \o <<"manifest.mpd", "segments.mp4">>
            /\ UNCHANGED <<unlinked, files>>
    /\ pc' = IF thrown = Null THEN "resolved" ELSE "rejected"
    /\ UNCHANGED <<mpdVars, shouldTag, completed, thrown, flacVars, manifestVars,
                   blobVars, batchVars, sessionVars, searchVars, loaderVars>>

NextDownload == WriteManifest \/ FetchSegments \/ RunFfmpeg \/ Save \/ Finally

SpecDownload == InitDownload /\ [][NextDownload]_vars

----------------------------------------------------------------------------
(* The session routes (sessionRoutes.ts): the requests that move the position *)
(* of one session.  A handler runs to its next await without interruption;    *)
(* between two awaits the handlers of other requests run.  A request of the   *)
(* model is [kind, pc, value]: what was asked, where its handler waits, and   *)
(* the index it passed to updateWebSessionIndex.                              *)

\* Most requests handled at the same time.
MaxRequests == 2

NoRequest == [kind |-> "none", pc |-> "idle", value |-> 0]

\* A session with its tracks, at the position stored for it.
InitSession ==
    /\ pc = "serving"
    /\ sessionLength \in 1..MaxTracks
    /\ sessionIndex \in 0..sessionLength
    /\ currentIndex = sessionIndex
    /\ requests = [r \in 1..MaxRequests |-> NoRequest]
    /\ EarlierIdle
    /\ DownloadIdle
    /\ SearchIdle
    /\ LoaderIdle

\* Lines 606-650: the track at the position is read; without one the response
\* is `done`; a selected track that is not among the results is refused;
\* otherwise the selection is stored and upsertWebSelection is awaited.
Select(r) ==
    /\ requests[r].pc = "idle"
    /\ \E found \in BOOLEAN :
          requests' = [requests EXCEPT ![r] =
              [kind |-> "select",
               pc |-> IF sessionIndex < sessionLength /\ found THEN "upsert" ELSE "refused",
               value |-> 0]]
    /\ UNCHANGED <<pc, sessionIndex, sessionLength, currentIndex, earlierVars, downloadVars,
                   searchVars, loaderVars>>

\* Lines 652-653: after the await, session.index += 1 and the next payload is
\* returned.
SelectAdvance(r) ==
    /\ requests[r].pc = "upsert"
    /\ sessionIndex' = sessionIndex + 1
    /\ requests' = [requests EXCEPT ![r].pc = "done"]
    /\ UNCHANGED <<pc, sessionLength, currentIndex, earlierVars, downloadVars, searchVars,
                   loaderVars>>

\* Lines 575-584 and 668-676: navigate moves the position by one, clamped to
\* 0 and tracks.length, and awaits updateWebSessionIndex.
Navigate(r) ==
    /\ requests[r].pc = "idle"
    /\ \E direction \in {"prev", "next", "up"} :
          IF direction = "up"
          THEN /\ requests' = [requests EXCEPT ![r] =
                                  [kind |-> "navigate", pc |-> "refused", value |-> 0]]
               /\ UNCHANGED sessionIndex
          ELSE /\ sessionIndex' =
                     IF direction = "prev"
                     THEN (IF sessionIndex - 1 > 0 THEN sessionIndex - 1 ELSE 0)
                     ELSE (IF sessionIndex + 1 < sessionLength THEN sessionIndex + 1
                           ELSE sessionLength)
               /\ requests' = [requests EXCEPT ![r] =
                                  [kind |-> "navigate", pc |-> "persist",
                                   value |-> sessionIndex']]
    /\ UNCHANGED <<pc, sessionLength, currentIndex, earlierVars, downloadVars, searchVars,
                   loaderVars>>

\* Lines 560-567 (track) and 485-491 (getSessionSnapshot with an index
\* override): an index outside 0..tracks.length-1 is refused, any other
\* becomes the position, and updateWebSessionIndex is awaited.
SetIndex(r) ==
    /\ requests[r].pc = "idle"
    /\ \E kind \in {"track", "snapshot"}, param \in (0 - 1)..sessionLength :
          IF param < 0 \/ param >= sessionLength
          THEN /\ requests' = [requests EXCEPT ![r] =
                                  [kind |-> kind, pc |-> "refused", value |-> 0]]
               /\ UNCHANGED sessionIndex
          ELSE /\ sessionIndex' = param
               /\ requests' = [requests EXCEPT ![r] =
                                  [kind |-> kind, pc |-> "persist", value |-> param]]
    /\ UNCHANGED <<pc, sessionLength, currentIndex, earlierVars, downloadVars, searchVars,
                   loaderVars>>

\* updateWebSessionIndex(session.id, value) takes effect and the handler goes
\* on to its response.
Persist(r) ==
    /\ requests[r].pc = "persist"
    /\ currentIndex' = requests[r].value
    /\ requests' = [requests EXCEPT ![r].pc = "done"]
    /\ UNCHANGED <<pc, sessionIndex, sessionLength, earlierVars, downloadVars, searchVars,
                   loaderVars>>

NextSession ==
    \E r \in 1..MaxRequests :
        Select(r) \/ SelectAdvance(r) \/ Navigate(r) \/ SetIndex(r) \/ Persist(r)

SpecSession == InitSession /\ [][NextSession]_vars

----------------------------------------------------------------------------
(* The search results of a session (sessionRoutes.ts): the calls of           *)
(* prefetchResults and loadResultsForIndex.  A call of the model is           *)
(* [kind, index, pc]; it runs to its next await without interruption.         *)
(* Whether the match cache holds the track, whether the search succeeds and   *)
(* whether the wait of loadResultsForIndex has timed out is the choice of     *)
(* the environment.                                                           *)

NoCall == [kind |-> "none", index |-> 0, pc |-> "idle"]

\* A session some of whose results are cached, and no call running.
InitSearch ==
    /\ pc = "serving"
    /\ resultsCache \in SUBSET (0..(MaxTracks - 1))
    /\ resultsInFlight = {}
    /\ searches = [c \in 1..MaxRequests |-> NoCall]
    /\ EarlierIdle
    /\ DownloadIdle
    /\ SessionIdle
    /\ LoaderIdle

\* prefetchResults, lines 201-208: nothing to do when the results are cached
\* or marked in flight; otherwise tryLoadCachedResults is awaited.
\* loadResultsForIndex, lines 232-254: cached results are returned; a marked
\* index is waited for; otherwise tryLoadCachedResults is awaited.
StartCall(c) ==
    /\ searches[c].pc = "idle"
    /\ \E kind \in {"prefetch", "load"}, index \in 0..(MaxTracks - 1) :
          searches' = [searches EXCEPT ![c] =
              [kind |-> kind, index |-> index,
               pc |-> IF index \in resultsCache THEN "done"
                      ELSE IF index \in resultsInFlight
                           THEN (IF kind = "prefetch" THEN "done" ELSE "wait")
                      ELSE "lookup"]]
    /\ UNCHANGED <<pc, resultsCache, resultsInFlight, earlierVars, downloadVars, sessionVars,
                   loaderVars>>

\* loadResultsForIndex, lines 237-249: after each 120 ms the cache is read;
\* the loop ends when the marker is gone or 15 s have passed.
Wake(c) ==
    /\ searches[c].pc = "wait"
    /\ \E timedOut \in BOOLEAN :
          searches' = [searches EXCEPT ![c].pc =
              IF searches[c].index \in resultsCache THEN "done"
              ELSE IF timedOut \/ searches[c].index \notin resultsInFlight THEN "lookup"
              ELSE "wait"]
    /\ UNCHANGED <<pc, resultsCache, resultsInFlight, earlierVars, downloadVars, sessionVars,
                   loaderVars>>

\* Lines 208-213 and 254-259: tryLoadCachedResults has settled.  With a cached
\* match the results are stored and the call returns; without, the index is
\* marked in flight and searchTracks is awaited.
LookupDone(c) ==
    /\ searches[c].pc = "lookup"
    /\ \E hit \in BOOLEAN :
          IF hit
          THEN /\ resultsCache' = resultsCache \cup {searches[c].index}
               /\ searches' = [searches EXCEPT ![c].pc = "done"]
               /\ UNCHANGED resultsInFlight
          ELSE /\ resultsInFlight' = resultsInFlight \cup {searches[c].index}
               /\ searches' = [searches EXCEPT ![c].pc = "search"]
               /\ UNCHANGED resultsCache
    /\ UNCHANGED <<pc, earlierVars, downloadVars, sessionVars, loaderVars>>

\* Lines 215-228 and 261-276: searchTracks has settled.  Its results are
\* stored and upsertWebResults is awaited; when it threw, the catch logs and
\* the finally block removes the marker.
SearchDone(c) ==
    /\ searches[c].pc = "search"
    /\ \E ok \in BOOLEAN :
          IF ok
          THEN /\ resultsCache' = resultsCache \cup {searches[c].index}
               /\ searches' = [searches EXCEPT ![c].pc = "upsert"]
               /\ UNCHANGED resultsInFlight
          ELSE /\ resultsInFlight' = resultsInFlight \ {searches[c].index}
               /\ searches' = [searches EXCEPT ![c].pc = "done"]
               /\ UNCHANGED resultsCache
    /\ UNCHANGED <<pc, earlierVars, downloadVars, sessionVars, loaderVars>>

\* Lines 218-228 and 264-276: upsertWebResults has settled (or thrown) and the
\* finally block removes the marker.
UpsertDone(c) ==
    /\ searches[c].pc = "upsert"
    /\ resultsInFlight' = resultsInFlight \ {searches[c].index}
    /\ searches' = [searches EXCEPT ![c].pc = "done"]
    /\ UNCHANGED <<pc, resultsCache, earlierVars, downloadVars, sessionVars, loaderVars>>

NextSearch ==
    \E c \in 1..MaxRequests :
        StartCall(c) \/ Wake(c) \/ LookupDone(c) \/ SearchDone(c) \/ UpsertDone(c)

SpecSearch == InitSearch /\ [][NextSearch]_vars

----------------------------------------------------------------------------
(* The shared FFmpeg instance (lib/ffmpeg.ts, lines 3-52).  ffmpegPromise is  *)
(* Null or the promise made by loadFfmpeg, [id, state]; instances counts the  *)
(* calls of new FFmpeg() and loadCalls those of ffmpeg.load().  A caller is a *)
(* call site of convertMp4ToFlac, [pc, promise, calls]: the promise it awaits *)
(* and the number of calls it has made.                                       *)

MaxCallers == 3
MaxCalls == 2

\* A faulty guard: a promise that has not been fulfilled is replaced.
needsLoad_UnlessFulfilled(promise) ==
    IF promise = Null THEN TRUE ELSE promise.state # "fulfilled"

\* Line 23: if (!ffmpegPromise).
needsLoad(promise) ==
    promise = Null

\* Line 3: let ffmpegPromise = null; no call made yet.
InitLoader ==
    /\ pc = "browser"
    /\ ffmpegPromise = Null
    /\ instances = 0
    /\ loadCalls = 0
    /\ callers = [c \in 1..MaxCallers |-> [pc |-> "idle", promise |-> 0, calls |-> 0]]
    /\ EarlierIdle
    /\ DownloadIdle
    /\ SessionIdle
    /\ SearchIdle

\* convertMp4ToFlac, line 52, and loadFfmpeg, lines 22-37: without a promise the
\* async function is started, which runs new FFmpeg() and calls ffmpeg.load()
\* before it first awaits; the promise, new or old, is what the caller awaits.
ConvertCall(c) ==
    /\ callers[c].pc \in {"idle", "loaded", "failed"}
    /\ callers[c].calls < MaxCalls
    /\ IF needsLoad(ffmpegPromise)
       THEN /\ instances' = instances + 1
            /\ loadCalls' = loadCalls + 1
            /\ ffmpegPromise' = [id |-> instances + 1, state |-> "pending"]
       ELSE UNCHANGED <<ffmpegPromise, instances, loadCalls>>
    /\ callers' = [callers EXCEPT ![c] =
           [pc |-> "awaiting", promise |-> ffmpegPromise'.id, calls |-> @.calls + 1]]
    /\ UNCHANGED <<pc, earlierVars, downloadVars, sessionVars, searchVars>>

\* Lines 27-32: ffmpeg.load() settles, and with it the promise.
Settle ==
    /\ ffmpegPromise # Null
    /\ ffmpegPromise.state = "pending"
    /\ \E state \in {"fulfilled", "rejected"} :
          ffmpegPromise' = [ffmpegPromise EXCEPT !.state = state]
    /\ UNCHANGED <<pc, instances, loadCalls, callers, earlierVars, downloadVars, sessionVars,
                   searchVars>>

\* Line 52: const ffmpeg = await loadFfmpeg() goes on when the awaited promise
\* has settled; a rejection is thrown to the caller of convertMp4ToFlac.
Resume(c) ==
    /\ callers[c].pc = "awaiting"
    /\ ffmpegPromise # Null
    /\ ffmpegPromise.id = callers[c].promise
    /\ ffmpegPromise.state # "pending"
    /\ callers' = [callers EXCEPT ![c].pc =
           IF ffmpegPromise.state = "fulfilled" THEN "loaded" ELSE "failed"]
    /\ UNCHANGED <<pc, ffmpegPromise, instances, loadCalls, earlierVars, downloadVars,
                   sessionVars, searchVars>>

NextLoader ==
    \/ \E c \in 1..MaxCallers : ConvertCall(c) \/ Resume(c)
    \/ Settle

SpecLoader == InitLoader /\ [][NextLoader]_vars

----------------------------------------------------------------------------
(* The claims about applyFlacTags.  The presence rules, the chain of the input *)
(* and the expected chain are restated here in the words of the claims.       *)

Tagged == pc = "tagged"

\* metadata is null/undefined or has no non-empty field.
NoMetadataGiven == metadata = Null \/ \A f \in MetadataFields : metadata[f] = <<>>

\* cover is null/undefined or has a zero-length buffer.
NoCoverGiven == cover = Null \/ cover.buffer = <<>>

\* The input is shorter than 4 bytes or does not start with 0x66 0x4c 0x61 0x43.
LacksMagic == BLen(source) < 4 \/ Take(source, 4) # FromBytes(<<102, 76, 97, 67>>)

RECURSIVE DeclaresTooMuch(_, _)
\* Walking the chain of buffer b from `offset`: some header up to and including
\* the one flagged is-last declares more payload bytes than remain after it.
DeclaresTooMuch(b, offset) ==
    /\ offset + 4 <= BLen(b)
    /\ LET declared == ByteAt(b, offset + 1) * 65536 + ByteAt(b, offset + 2) * 256
                       + ByteAt(b, offset + 3)
       IN  \/ declared > BLen(b) - (offset + 4)
           \/ /\ ByteAt(b, offset) < 128
              /\ DeclaresTooMuch(b, offset + 4 + declared)

\* The blocks parsed from the input (for an input that parses).
InputBlocks == parseBlocks(source).blocks

\* Number of blocks of type 0 in a chain.
StreamInfoCount(blocks) == Cardinality({ i \in 1..Len(blocks) : blocks[i].type = 0 })

\* Tags or a cover are given, the magic is valid and the chain parses.
ParsesWithTags ==
    /\ ~(NoMetadataGiven /\ NoCoverGiven)
    /\ ~LacksMagic
    /\ parseBlocks(source) # Null

\* The rebuild path is taken: tags or cover given, valid magic, chain parsed,
\* STREAMINFO found.
TakesRebuild == ParsesWithTags /\ StreamInfoCount(InputBlocks) >= 1

ReturnsSourceUnchanged == tagged.same /\ tagged.bytes = source

IsSurvivor(block) == block.type \notin {0, 4, 6}

\* The first block of type 0 of a chain that holds one.
FirstStreamInfo(blocks) ==
    blocks[CHOOSE i \in 1..Len(blocks) :
              blocks[i].type = 0 /\ \A j \in 1..(i - 1) : blocks[j].type # 0]

\* The chain the claims describe: STREAMINFO, the new comment block iff metadata
\* is present, the new picture block iff cover is present, the other blocks.
ExpectedChain ==
    LET blocks == InputBlocks
    IN  << [type |-> 0, data |-> FirstStreamInfo(blocks).data] >>
        \o (IF NoMetadataGiven THEN <<>>
            ELSE << [type |-> 4, data |-> buildVorbisCommentBlock(metadata)] >>)
        \o (IF NoCoverGiven THEN <<>>
            ELSE << [type |-> 6, data |-> buildPictureBlock(cover)] >>)
        \o SelectSeq(blocks, IsSurvivor)

RECURSIVE ChainLength(_)
\* Bytes a chain takes when written: 4 header bytes and the payload, per block.
ChainLength(blocks) ==
    IF blocks = <<>> THEN 0 ELSE 4 + BLen(blocks[1].data) + ChainLength(Tail(blocks))

\* The type and payload of the first block of a buffer that starts with the
\* magic, read from its header at offset 4.
FirstBlock(b) ==
    LET length == ByteAt(b, 5) * 65536 + ByteAt(b, 6) * 256 + ByteAt(b, 7)
    IN  [type |-> ByteAt(b, 4) % 128, data |-> Slice(b, 8, 8 + length)]

\* C1: applyFlacTags returns source itself, unchanged, whenever metadata is
\* null or has no non-empty field and cover is null or has an empty buffer,
\* whether or not source is a FLAC file.
C1_IdentityFastPath ==
    (Tagged /\ NoMetadataGiven /\ NoCoverGiven) => ReturnsSourceUnchanged

\* A well-formed FLAC file tagged with an all-empty metadata object and an
\* empty cover buffer.
C1_Witness ==
    /\ Tagged
    /\ metadata # Null /\ NoMetadataGiven
    /\ cover # Null /\ NoCoverGiven
    /\ ~LacksMagic /\ parseBlocks(source) # Null
    /\ StreamInfoCount(InputBlocks) >= 1
    /\ tagged.same

\* C2: on the rebuild path the output consists of the magic, the rebuilt chain
\* and then exactly the input's bytes from the offset after its last parsed
\* block to its end: no audio byte is added, dropped or reordered.
C2_AudioPreserved ==
    (Tagged /\ TakesRebuild) =>
        LET chainEnd == 4 + ChainLength(ExpectedChain)
            inputAudio == Drop(source, parseBlocks(source).audioOffset)
        IN  /\ BLen(tagged.bytes) = chainEnd + BLen(inputAudio)
            /\ Drop(tagged.bytes, chainEnd) = inputAudio

\* A rebuilt file whose input chain of at least two blocks is followed by
\* audio bytes.
C2_Witness ==
    /\ Tagged /\ TakesRebuild
    /\ Len(InputBlocks) >= 2
    /\ Drop(source, parseBlocks(source).audioOffset) # <<>>
    /\ ~tagged.same

\* C3: the rebuilt chain is STREAMINFO, then one new VORBIS_COMMENT block iff
\* metadata is present, then one new PICTURE block iff cover is present, then
\* the input's other blocks in their order; no VORBIS_COMMENT or PICTURE
\* block of the input survives.
C3_ChainOrder ==
    (Tagged /\ TakesRebuild) =>
        /\ ~tagged.same
        /\ tagged.bytes =
             Cat(Cat(FromBytes(<<102, 76, 97, 67>>), WriteBlocks(ExpectedChain, 1)),
                 Drop(source, parseBlocks(source).audioOffset))

\* Only a cover is supplied, and the input holds an old VORBIS_COMMENT block
\* between its STREAMINFO block and another block.
C3_Witness ==
    /\ Tagged /\ TakesRebuild
    /\ NoMetadataGiven /\ ~NoCoverGiven
    /\ Len(InputBlocks) = 3
    /\ InputBlocks[1].type = 0 /\ InputBlocks[2].type = 4 /\ InputBlocks[3].type = 1
    /\ ~tagged.same

\* C4: tagging is idempotent: tagging the result again with the same metadata
\* and cover gives the same bytes.
C4_Idempotent == pc = "retagged" => retagged.bytes = tagged.bytes

\* Tagging is idempotent as long as the new picture payload fits the 24-bit
\* length field of its block header.
IdempotentBelowLengthLimit ==
    (pc = "retagged" /\ (cover = Null \/ BLen(cover.buffer) < BigCoverLen - 64))
        => retagged.bytes = tagged.bytes

\* C5: on the rebuild path the first block of the output is a STREAMINFO block
\* whose payload is the payload of the input's STREAMINFO block.
C5_StreamInfoPreserved ==
    (Tagged /\ TakesRebuild) =>
        LET first == FirstBlock(tagged.bytes)
        IN  /\ first.type = 0
            /\ first.data = FirstStreamInfo(InputBlocks).data

\* A rebuilt file whose input had its STREAMINFO block behind another block.
C5_Witness ==
    /\ Tagged /\ TakesRebuild
    /\ InputBlocks[1].type # 0
    /\ ~tagged.same

\* C6: with metadata or cover present, an input shorter than 4 bytes or
\* without the fLaC magic is returned unchanged.
C6_NonFlacUnchanged ==
    (Tagged /\ ~(NoMetadataGiven /\ NoCoverGiven) /\ LacksMagic) => ReturnsSourceUnchanged

\* Tags and a cover given for a file whose fourth byte is wrong.
C6_Witness ==
    /\ Tagged /\ ~NoMetadataGiven /\ ~NoCoverGiven
    /\ BLen(source) > 4 /\ LacksMagic
    /\ tagged.same

\* C7: with metadata or cover present, an input in which a walked block header
\* declares more bytes than remain is returned unchanged.
C7_TruncatedUnchanged ==
    (Tagged /\ ~(NoMetadataGiven /\ NoCoverGiven) /\ ~LacksMagic
       /\ DeclaresTooMuch(source, 4))
        => ReturnsSourceUnchanged

\* A file cut short inside its third block, after a complete STREAMINFO block.
C7_Witness ==
    /\ Tagged /\ ~NoMetadataGiven
    /\ ~LacksMagic /\ DeclaresTooMuch(source, 4)
    /\ ByteAt(source, 4) = 0
    /\ BLen(source) > 20
    /\ tagged.same

\* C8 as stated: the chain is rebuilt only for an input with exactly one
\* STREAMINFO block among its parsed blocks.
C8_ExactlyOneRequired ==
    (Tagged /\ ~tagged.same) => StreamInfoCount(InputBlocks) = 1

\* C8 amended: at least one STREAMINFO block is required: when the parsed
\* chain holds no block of type 0 the input is returned unchanged, although
\* metadata or cover is present.
C8_MissingStreamInfoUnchanged ==
    (Tagged /\ ParsesWithTags /\ StreamInfoCount(InputBlocks) = 0)
        => ReturnsSourceUnchanged

\* A parsed chain of several blocks, none of type 0, with tags and cover given.
C8_Witness ==
    /\ Tagged /\ ~NoMetadataGiven /\ ~NoCoverGiven
    /\ ~LacksMagic /\ parseBlocks(source) # Null
    /\ Len(InputBlocks) >= 2 /\ StreamInfoCount(InputBlocks) = 0
    /\ tagged.same

\* C21: applyFlacTags never writes to its input: over the call the bytes of
\* source stay as they were; on the rebuild path the buffer returned is a fresh
\* one, so a later write to it leaves source as it was; only the fast paths and
\* fallbacks return the source object itself.
C21_InputNeverWritten ==
    [][/\ (pc = "input" /\ pc' = "tagged") =>
            /\ source' = source
            /\ tagged'.same <=> ~TakesRebuild
            /\ tagged'.same => tagged'.bytes = source
       /\ (pc = "tagged" /\ pc' = "written" /\ TakesRebuild) =>
            /\ source' = source
            /\ tagged'.bytes # tagged.bytes]_vars

\* A FLAC file was tagged on the rebuild path and the first byte of the output
\* was then cleared: the file still starts with "f".
C21_Witness ==
    /\ pc = "written"
    /\ TakesRebuild
    /\ ByteAt(tagged.bytes, 0) = 0
    /\ ByteAt(source, 0) = 102

\* The big-endian number in the four bytes of b from `offset`.
ReadBE(b, offset) ==
    ((ByteAt(b, offset) * 256 + ByteAt(b, offset + 1)) * 256 + ByteAt(b, offset + 2)) * 256
    + ByteAt(b, offset + 3)

\* Where the payload of the new PICTURE block starts in the output: after the
\* magic, the STREAMINFO block, the new comment block if there is one, and the
\* header of the picture block.
PictureOffset ==
    4 + (4 + BLen(FirstStreamInfo(InputBlocks).data))
    + (IF NoMetadataGiven THEN 0 ELSE 4 + BLen(buildVorbisCommentBlock(metadata)))
    + 4

\* A cover was written on the rebuild path.
PictureWritten == Tagged /\ TakesRebuild /\ ~NoCoverGiven

\* C22: the PICTURE payload written for a cover is, in order and big-endian:
\* picture type 3, the MIME length and bytes, description length 13 and
\* "Cover (front)", four zero fields, the data length and the picture bytes;
\* each declared length is the number of bytes written for its field and the
\* payload is 32 + |mime| + 13 + |data| bytes long.
C22_PicturePayload ==
    PictureWritten =>
        LET out == tagged.bytes
            o == PictureOffset
            m == Len(cover.mimeType)
            d == BLen(cover.buffer)
            afterMime == o + 8 + m
            afterText == afterMime + 4 + 13
        IN  /\ ReadBE(out, o) = 3
            /\ ReadBE(out, o + 4) = m
            /\ Slice(out, o + 8, afterMime) = FromBytes(cover.mimeType)
            /\ ReadBE(out, afterMime) = 13
            /\ Slice(out, afterMime + 4, afterText)
                 = FromBytes(<<67, 111, 118, 101, 114, 32, 40, 102, 114, 111, 110, 116, 41>>)
            /\ \A field \in 0..3 : ReadBE(out, afterText + 4 * field) = 0
            /\ ReadBE(out, afterText + 16) = d
            /\ Slice(out, afterText + 20, afterText + 20 + d) = cover.buffer
            /\ BLen(buildPictureBlock(cover)) = 32 + m + 13 + d
            /\ Slice(out, o, o + 32 + m + 13 + d) = buildPictureBlock(cover)

\* A three-byte PNG cover written after a new comment block.
C22_Witness ==
    /\ PictureWritten
    /\ ~NoMetadataGiven
    /\ Len(cover.mimeType) = 9
    /\ BLen(cover.buffer) = 3
    /\ ReadBE(tagged.bytes, PictureOffset + 4) = 9

\* A cover of 2^24 bytes: its data length takes the top byte of the field.
C22_BigCoverWitness ==
    /\ PictureWritten
    /\ BLen(cover.buffer) = BigCoverLen
    /\ ReadBE(tagged.bytes, PictureOffset + 8 + 10 + 4 + 13 + 16) = BigCoverLen

\* The output starts with the magic, and parsing it gives back the chain that
\* was written and the offset at which the audio bytes were copied.
OutputParsesBack ==
    LET reparsed == parseBlocks(tagged.bytes)
    IN  /\ Take(tagged.bytes, 4) = FromBytes(<<102, 76, 97, 67>>)
        /\ reparsed # Null
        /\ reparsed.blocks = ExpectedChain
        /\ reparsed.audioOffset = 4 + ChainLength(ExpectedChain)
        /\ SliceFrom(tagged.bytes, reparsed.audioOffset)
             = SliceFrom(source, parseBlocks(source).audioOffset)

\* C24: on the rebuild path the output is a well-formed chain: it starts with
\* the magic and parseBlocks reads back exactly the rebuilt blocks and the
\* audio offset, every 24-bit length field being the real length of its
\* payload, also for a new payload of 2^24 bytes or more.
C24_OutputWellFormed == (Tagged /\ TakesRebuild) => OutputParsesBack

\* What holds of the code: the output parses back when the new picture
\* payload is shorter than 2^24 bytes.
WellFormedBelowLengthLimit ==
    (Tagged /\ TakesRebuild /\ (cover = Null \/ BLen(cover.buffer) < BigCoverLen - 64))
        => OutputParsesBack

\* A cover of 2^24 bytes was written: the length field of its header holds the
\* payload length modulo 2^24, and the output does not parse back.
LengthFieldTruncated ==
    /\ PictureWritten
    /\ BLen(cover.buffer) = BigCoverLen
    /\ ByteAt(tagged.bytes, PictureOffset - 3) = 0
    /\ ByteAt(tagged.bytes, PictureOffset - 2) = 0
    /\ ByteAt(tagged.bytes, PictureOffset - 1) = 32 + 10 + 13
    /\ ~OutputParsesBack

\* The types of the blocks written to the output, read from the headers of the
\* output: each header follows the payload of the block before it, whose
\* length is that of the payload of the expected chain.
WrittenTypes ==
    LET chain == ExpectedChain
        RECURSIVE walk(_, _)
        walk(k, offset) ==
            IF k > Len(chain) THEN <<>>
            ELSE <<ByteAt(tagged.bytes, offset) % 128>>
                 \o walk(k + 1, offset + 4 + BLen(chain[k].data))
    IN  walk(1, 4)

\* C25: on the rebuild path the output chain holds exactly one STREAMINFO
\* block and it is the first block, for every parsed input chain: also when
\* the input holds several blocks of type 0 (the first is kept, the others
\* are dropped) and when its STREAMINFO block is not its first block.
C25_OneStreamInfoFirst ==
    (Tagged /\ ParsesWithTags) =>
        IF StreamInfoCount(InputBlocks) = 0 THEN tagged.same
        ELSE LET types == WrittenTypes
             IN  /\ ~tagged.same
                 /\ types[1] = 0
                 /\ \A k \in 2..Len(types) : types[k] # 0
                 /\ FirstBlock(tagged.bytes).data = FirstStreamInfo(InputBlocks).data

\* An input with two blocks of type 0, the first of them after a PADDING
\* block: the output holds one STREAMINFO block, first, and the padding.
C25_Witness ==
    /\ Tagged /\ TakesRebuild
    /\ StreamInfoCount(InputBlocks) = 2
    /\ InputBlocks[1].type = 1
    /\ WrittenTypes[1] = 0
    /\ WrittenTypes[Len(WrittenTypes)] = 1

\* The offset in the output of the header of the k-th block of a written chain.
HeaderOffset(chain, k) == 4 + ChainLength(SubSeq(chain, 1, k - 1))

\* The type of the block the claims have the chain end with: the last surviving
\* other block, else the new PICTURE block, else the new VORBIS_COMMENT block.
ExpectedFinalType ==
    LET survivors == SelectSeq(InputBlocks, IsSurvivor)
    IN  IF survivors # <<>> THEN survivors[Len(survivors)].type
        ELSE IF ~NoCoverGiven THEN 6
        ELSE 4

\* C18: in the chain written by applyFlacTags exactly one block header has
\* bit 31 (is-last) set, the header of the final block: the last surviving
\* other block, else the new PICTURE block, else the new VORBIS_COMMENT block,
\* wherever the input had the bit set.
C18_IsLastOnFinalOnly ==
    (Tagged /\ TakesRebuild) =>
        LET chain == ExpectedChain
            first(k) == ByteAt(tagged.bytes, HeaderOffset(chain, k))
        IN  /\ \A k \in 1..Len(chain) : (first(k) >= 128) <=> (k = Len(chain))
            /\ first(Len(chain)) % 128 = ExpectedFinalType

\* An input whose first header carries the flag before two more blocks, tagged
\* with metadata and cover: the chain of three blocks ends with the PICTURE block.
C18_Witness ==
    /\ Tagged /\ TakesRebuild
    /\ ByteAt(source, 4) = 128
    /\ BLen(source) > 20
    /\ ~NoMetadataGiven /\ ~NoCoverGiven
    /\ Len(ExpectedChain) = 3
    /\ ByteAt(tagged.bytes, HeaderOffset(ExpectedChain, 3)) = 128 + 6

\* An input without any flagged header whose PADDING block survives as the
\* final, flagged block.
C18_SurvivorWitness ==
    /\ Tagged /\ TakesRebuild
    /\ \A k \in 1..Len(InputBlocks) : ByteAt(source, HeaderOffset(InputBlocks, k)) < 128
    /\ Len(InputBlocks) = 3 /\ InputBlocks[2].type = 1 /\ InputBlocks[3].type = 4
    /\ ByteAt(tagged.bytes, HeaderOffset(ExpectedChain, Len(ExpectedChain))) = 128 + 1

\* The 32-bit little-endian number at an offset of a buffer (below 2^31).
ReadLE(b, offset) ==
    ByteAt(b, offset) + 256 * ByteAt(b, offset + 1) + 65536 * ByteAt(b, offset + 2)
    + 16777216 * ByteAt(b, offset + 3)

\* The comment keys in their fixed order, as text.
ClaimedKeys ==
    << [field |-> "title", name |-> <<"T", "I", "T", "L", "E">>],
       [field |-> "artist", name |-> <<"A", "R", "T", "I", "S", "T">>],
       [field |-> "album", name |-> <<"A", "L", "B", "U", "M">>],
       [field |-> "date", name |-> <<"D", "A", "T", "E">>],
       [field |-> "trackNumber",
        name |-> <<"T", "R", "A", "C", "K", "N", "U", "M", "B", "E", "R">>] >>

HasValue(key) == metadata[key.field] # <<>>

\* The bytes of the `KEY=value` entries the claim lists: one per non-empty
\* field, in the fixed order.
ClaimedEntries ==
    LET present == SelectSeq(ClaimedKeys, HasValue)
    IN  [k \in 1..Len(present) |->
            TextBytes(present[k].name \o <<"=">>) \o metadata[present[k].field]]

RECURSIVE EntriesLength(_)
\* The sum over the entries of 4 + the entry's byte length.
EntriesLength(entries) ==
    IF entries = <<>> THEN 0 ELSE 4 + Len(entries[1]) + EntriesLength(Tail(entries))

\* "spotify-downloader"
VendorText ==
    <<"s", "p", "o", "t", "i", "f", "y", "-", "d", "o", "w", "n", "l", "o", "a", "d", "e", "r">>

\* C19: the VORBIS_COMMENT payload declares as many comments as there are
\* non-empty fields among title, artist, album, date, trackNumber, holds one
\* KEY=value entry per such field in the order TITLE, ARTIST, ALBUM, DATE,
\* TRACKNUMBER, each after its 4-byte little-endian byte length, and is
\* 4 + |vendor| + 4 + sum of (4 + |entry|) bytes long.
C19_CommentPayload ==
    (pc = "built") =>
        LET entries == ClaimedEntries
            vendor == TextBytes(VendorText)
            start(k) == 4 + Len(vendor) + 4 + EntriesLength(SubSeq(entries, 1, k - 1))
        IN  /\ ReadLE(comment, 0) = Len(vendor)
            /\ Slice(comment, 4, 4 + Len(vendor)) = FromBytes(vendor)
            /\ ReadLE(comment, 4 + Len(vendor)) = Len(entries)
            /\ Len(entries) = Cardinality({ f \in MetadataFields : metadata[f] # <<>> })
            /\ \A k \in 1..Len(entries) :
                 /\ ReadLE(comment, start(k)) = Len(entries[k])
                 /\ Slice(comment, start(k) + 4, start(k) + 4 + Len(entries[k]))
                      = FromBytes(entries[k])
            /\ BLen(comment) = 4 + Len(vendor) + 4 + EntriesLength(entries)

\* The payload built from an artist, a 250-byte album and a track number, no
\* title and no date: three entries, the second of 256 bytes.
C19_Witness ==
    /\ pc = "built"
    /\ metadata = [title |-> <<>>, artist |-> <<65, 98>>, album |-> LongValue,
                   date |-> <<>>, trackNumber |-> <<49, 50>>]
    /\ ReadLE(comment, 22) = 3
    /\ ReadLE(comment, 26) = 9
    /\ ReadLE(comment, 39) = 256
    /\ ByteAt(comment, 39) = 0 /\ ByteAt(comment, 40) = 1
    /\ BLen(comment) = 26 + 13 + 260 + 18

----------------------------------------------------------------------------
(* The caller of parseMpdSegmentUrls: resolves the segment plan of a manifest. *)

InitMpd ==
    /\ pc = "manifest"
    /\ mpd \in MpdDocs
    /\ plan = Null
    /\ FlacIdle
    /\ ManifestIdle
    /\ BlobIdle
    /\ BatchIdle
    /\ LaterIdle

\* const segmentUrls = parseMpdSegmentUrls(mpdText)
ParseMpd ==
    /\ pc = "manifest"
    /\ plan' = parseMpdSegmentUrls(mpd)
    /\ pc' = "resolved"
    /\ UNCHANGED <<mpd, flacVars, manifestVars, blobVars, batchVars, laterVars>>

NextMpd == ParseMpd

SpecMpd == InitMpd /\ [][NextMpd]_vars

----------------------------------------------------------------------------
(* decodeManifest, in the two steps of its body. *)

InitManifest ==
    /\ pc = "encoded"
    /\ manifest \in Manifests
    /\ decoded = Null
    /\ result = Null
    /\ jsonParsed = FALSE
    /\ FlacIdle
    /\ MpdIdle
    /\ BlobIdle
    /\ BatchIdle
    /\ LaterIdle

\* Lines 25-29: decode, trim, and return the Mpd variant for a text that
\* starts with "<".
Decode ==
    /\ pc = "encoded"
    /\ decoded' = decodeText(manifest)
    /\ IF StartsWith(decoded'.text, "<")
       THEN result' = mpdResult(decoded') /\ pc' = "returned"
       ELSE result' = result /\ pc' = "try"
    /\ UNCHANGED <<manifest, jsonParsed, flacVars, mpdVars, blobVars, batchVars, laterVars>>

\* Lines 31-41: the try block with its catch.
ParseJson ==
    /\ pc = "try"
    /\ jsonParsed' = TRUE
    /\ result' = catchBlock(tryBlock(decoded.text))
    /\ pc' = "returned"
    /\ UNCHANGED <<manifest, decoded, flacVars, mpdVars, blobVars, batchVars, laterVars>>

NextManifest == Decode \/ ParseJson

SpecManifest == InitManifest /\ [][NextManifest]_vars

----------------------------------------------------------------------------
(* The claims about parseMpdSegmentUrls *)

Resolved == pc = "resolved"

\* The timeline that survives filtering.
SurvivingTimeline == parseTimeline(mpd.elements)

\* The start number in use: the attribute's number when positive, else 1.
StartNumberUsed ==
    LET n == Number(IF mpd.attrs.startNumber = Undefined THEN <<"1">>
                    ELSE mpd.attrs.startNumber)
    IN  IF ~n.nan /\ n.num > 0 THEN n ELSE Num(1, 1)

RECURSIVE SumOfRepeats(_)
\* The sum over the entries of (r + 1 if r >= 0, else 1), as a fraction num/den.
SumOfRepeats(timeline) ==
    IF timeline = <<>> THEN [num |-> 0, den |-> 1]
    ELSE LET r == timeline[1].r
             term == IF r.num >= 0 THEN [num |-> r.num + r.den, den |-> r.den]
                     ELSE [num |-> 1, den |-> 1]
             rest == SumOfRepeats(Tail(timeline))
         IN  [num |-> term.num * rest.den + rest.num * term.den,
              den |-> term.den * rest.den]

RECURSIVE SumOfRoundedRepeats(_)
\* The sum over the entries of (r + 1 rounded up to an integer if r >= 0, else 1).
SumOfRoundedRepeats(timeline) ==
    IF timeline = <<>> THEN 0
    ELSE LET r == timeline[1].r
         IN  (IF r.num >= 0 THEN (r.num + r.den + r.den - 1) \div r.den ELSE 1)
             + SumOfRoundedRepeats(Tail(timeline))

\* C9 as stated: the segment list has exactly the sum over the timeline
\* entries of (r + 1 if r >= 0, else 1) elements.
C9_CountIsSumOfRepeats ==
    (Resolved /\ plan # Null) =>
        LET sum == SumOfRepeats(SurvivingTimeline)
        IN  Len(plan.segments) * sum.den = sum.num

\* C9 amended: the segment list has exactly the sum over the timeline entries
\* of (r + 1 rounded up to the next integer if r >= 0, else 1) elements, which
\* is r + 1 for every integer r >= 0; a negative r contributes one URL.
C9_CountIsSumOfRoundedRepeats ==
    (Resolved /\ plan # Null) =>
        Len(plan.segments) = SumOfRoundedRepeats(SurvivingTimeline)

\* A plan of four URLs from an entry with r = 2 before an entry with r = -1.
C9_Witness ==
    /\ Resolved /\ plan # Null
    /\ Len(SurvivingTimeline) = 2
    /\ SurvivingTimeline[1].r = Num(2, 1)
    /\ SurvivingTimeline[2].r = Num(0 - 1, 1)
    /\ Len(plan.segments) = 4

\* "seg-<n>.m4s"
SegUrl(n) == <<"s", "e", "g", "-", n, ".", "m", "4", "s">>

\* C10: the k-th segment URL (k from 0 over the whole list) is the media
\* template with $Number$ replaced by startNumber + k, across the boundaries
\* of the timeline entries; the example of the claim gives seg-1 .. seg-4.
C10_NumbersRunOn ==
    (Resolved /\ plan # Null) =>
        /\ \A k \in 0..(Len(plan.segments) - 1) :
             plan.segments[k + 1] =
               Replace(mpd.attrs.media, NumberToken,
                       NumberToString(Num(StartNumberUsed.num + k * StartNumberUsed.den,
                                          StartNumberUsed.den)))
        /\ (/\ mpd.attrs.media = MediaTemplate
            /\ mpd.attrs.startNumber = <<"1">>
            /\ mpd.elements = << [d |-> <<"1", "0", "0", "0">>, r |-> <<"2">>],
                                 [d |-> <<"1", "0", "0", "0">>, r |-> Undefined] >>)
           => plan.segments = << SegUrl("1"), SegUrl("2"), SegUrl("3"), SegUrl("4") >>

\* The example of the claim: start number 1, an entry with r = 2, then an
\* entry with r = 0, resolved to four URLs.
C10_Witness ==
    /\ Resolved /\ plan # Null
    /\ mpd.attrs.media = MediaTemplate
    /\ mpd.attrs.startNumber = <<"1">>
    /\ mpd.elements = << [d |-> <<"1", "0", "0", "0">>, r |-> <<"2">>],
                         [d |-> <<"1", "0", "0", "0">>, r |-> Undefined] >>
    /\ Len(plan.segments) = 4

\* The SegmentTemplate tag carries no attribute of this name.
AttributeAbsent(name) == mpd.attrs[name] = Undefined

\* The media template holds the literal text $Number$ at some position.
MediaHasNumberToken ==
    LET media == mpd.attrs.media
    IN  \E i \in 1..Len(media) :
          /\ i + 7 <= Len(media)
          /\ [j \in 1..8 |-> media[i + j - 1]] = <<"$", "N", "u", "m", "b", "e", "r", "$">>

\* C11: parseMpdSegmentUrls returns null whenever the SegmentTemplate has no
\* initialization attribute, or no media attribute, or a media value without
\* the literal $Number$; no segment plan is returned in any of these cases.
C11_NullWithoutTemplateParts ==
    (/\ Resolved
     /\ mpd.hasTemplate
     /\ \/ AttributeAbsent("initialization")
        \/ AttributeAbsent("media")
        \/ ~MediaHasNumberToken)
        => plan = Null

\* An initialization attribute, a media template "seg" without the token and a
\* timeline with a valid entry: the null comes from the token check alone.
C11_Witness ==
    /\ Resolved
    /\ mpd.hasTemplate /\ mpd.hasTimeline
    /\ ~AttributeAbsent("initialization")
    /\ mpd.attrs.media = <<"s", "e", "g">>
    /\ SurvivingTimeline # <<>>
    /\ plan = Null

\* The d of an <S> element is present, numeric and greater than 0.
HasValidDuration(element) ==
    /\ element.d # Undefined
    /\ LET d == Number(element.d) IN ~d.nan /\ d.num > 0

\* The <S> elements that are not dropped, in document order.
KeptElements == SelectSeq(mpd.elements, HasValidDuration)

\* C12: every <S> entry whose d is missing, non-finite or <= 0 is dropped: the
\* timeline holds the other entries in document order, the result is the one
\* of the document without the dropped entries (they add no URL and do not
\* advance the segment number), and it is null when no entry is left.
C12_InvalidDurationsDropped ==
    (Resolved /\ mpd.hasTemplate /\ mpd.hasTimeline) =>
        /\ Len(SurvivingTimeline) = Len(KeptElements)
        /\ \A k \in 1..Len(KeptElements) :
             SurvivingTimeline[k].d = Number(KeptElements[k].d)
        /\ plan = parseMpdSegmentUrls([mpd EXCEPT !.elements = KeptElements])
        /\ (plan # Null) =>
             Len(plan.segments) = SumOfRoundedRepeats(SurvivingTimeline)
        /\ (KeptElements = <<>>) => plan = Null

\* An entry with d = "-5" and r = "2" before a valid entry: the plan holds the
\* one URL of the valid entry, numbered from the start number.
C12_Witness ==
    /\ Resolved /\ plan # Null
    /\ mpd.attrs = GoodAttrs
    /\ mpd.elements = << [d |-> <<"-", "5">>, r |-> <<"2">>],
                         [d |-> <<"1", "0", "0", "0">>, r |-> Undefined] >>
    /\ plan.segments = << SegUrl("1") >>

\* Every entry of a non-empty timeline is dropped and the result is null.
C12_AllDroppedWitness ==
    /\ Resolved /\ plan = Null
    /\ mpd.attrs = GoodAttrs
    /\ Len(mpd.elements) = 2 /\ KeptElements = <<>>

\* The startNumber attribute is a decimal literal of a positive integer.
StartNumberIsPositiveInteger ==
    LET text == mpd.attrs.startNumber
    IN  /\ text # Undefined
        /\ text # <<>>
        /\ \A i \in 1..Len(text) : IsDigit(text[i])
        /\ \E i \in 1..Len(text) : text[i] # "0"

\* The number the claim has the numbering start at: the attribute's value when
\* it is a positive integer, else the default 1.
ClaimedStartNumber ==
    IF StartNumberIsPositiveInteger THEN DigitsValue(mpd.attrs.startNumber, 0) ELSE 1

\* C20: the startNumber used by parseMpdSegmentUrls is the attribute's value
\* only when it parses to a positive integer; when the attribute is absent,
\* non-numeric, zero, negative or not an integer, numbering starts at 1: the
\* first segment URL carries that number.
C20_PositiveIntegerOrDefault ==
    (Resolved /\ plan # Null) =>
        plan.segments[1] =
            Replace(mpd.attrs.media, NumberToken, IntToString(ClaimedStartNumber))

\* What holds of the code: the default is used unless the attribute parses to
\* a finite number greater than 0, integer or not.
StartNumberDefaultUnlessPositive ==
    (Resolved /\ plan # Null) =>
        plan.segments[1] =
            Replace(mpd.attrs.media, NumberToken, NumberToString(StartNumberUsed))

\* startNumber="1.5" resolved to a plan whose first URL is numbered 1.5.
FractionalStartNumberUsed ==
    /\ Resolved /\ plan # Null
    /\ mpd.attrs.startNumber = <<"1", ".", "5">>
    /\ mpd.attrs.media = MediaTemplate
    /\ plan.segments[1] = <<"s", "e", "g", "-", "1", ".", "5", ".", "m", "4", "s">>

\* C26: no URL of the segment list still holds the token $Number$: every
\* occurrence of the token in the media template is replaced by the segment
\* number, also when the template holds the token more than once.
C26_NoTokenLeft ==
    (Resolved /\ plan # Null) =>
        \A k \in 1..Len(plan.segments) : ~Includes(plan.segments[k], NumberToken)

\* What holds of the code: no token is left when the media template holds the
\* token once.
NoTokenLeftOfOne ==
    (Resolved /\ plan # Null /\ Cardinality(Occurrences(mpd.attrs.media, NumberToken)) = 1) =>
        \A k \in 1..Len(plan.segments) : ~Includes(plan.segments[k], NumberToken)

\* The template $Number$/$Number$ resolved for segment 1: the second token is
\* still there.
SecondTokenLeft ==
    /\ Resolved /\ plan # Null
    /\ mpd.attrs.media = NumberToken \o <<"/">> \o NumberToken
    /\ Len(plan.segments) >= 1
    /\ plan.segments[1] = <<"1", "/">> \o NumberToken

----------------------------------------------------------------------------
(* The claims about decodeManifest *)

Decoded == pc = "returned"

\* The decoded text, untrimmed.
DecodedText == Utf8Decode(Base64Decode(manifest))

\* The first character of the decoded text that is not white space is "<".
TrimmedStartsWithAngle ==
    \E i \in 1..Len(DecodedText) :
        /\ DecodedText[i] = "<"
        /\ \A j \in 1..(i - 1) : DecodedText[j] \in WhiteSpace

\* The decoded text parsed as JSON.
DecodedJson == JsonParse(Trim(DecodedText))

\* The decoded text is JSON (and no XML).
IsJson == ~TrimmedStartsWithAngle /\ ~DecodedJson.threw

\* The value of the `urls` member of the decoded JSON object: undefined when
\* the JSON value is no object or has no such member.
UrlsMember ==
    LET payload == DecodedJson.value
        at == IF payload.t = "object"
              THEN { i \in 1..Len(payload.keys) : payload.keys[i] = <<"u", "r", "l", "s">> }
              ELSE {}
    IN  IF at = {} THEN JsUndefined ELSE payload.vals[CHOOSE i \in at : \A j \in at : i >= j]

\* `urls` is an array with a first element.
UrlsHasFirst == UrlsMember.t = "array" /\ UrlsMember.items # <<>>

\* `urls` is missing or an empty array.
UrlsEmptyOrMissing ==
    UrlsMember.t = "undefined" \/ (UrlsMember.t = "array" /\ UrlsMember.items = <<>>)

\* A non-empty string: what the first element of `urls` is typed to be.
IsUrlString(value) == value.t = "string" /\ value.s # <<>>

IsUrlVariant == result.value # Null /\ result.value.kind = "url"

\* C13 as stated: the Url variant carrying urls[0] is returned whenever the
\* decoded JSON's `urls` array has a first element, null whenever `urls` is
\* empty or missing, and never a Url variant with another value.
C13_UrlWheneverFirstElement ==
    (Decoded /\ IsJson) =>
        /\ UrlsHasFirst => result = Returned([kind |-> "url", url |-> UrlsMember.items[1]])
        /\ UrlsEmptyOrMissing => result = Returned(Null)
        /\ (IsUrlVariant /\ UrlsMember.t = "array") => result.value.url = UrlsMember.items[1]

\* C13 amended: the Url variant carrying urls[0] is returned whenever urls[0]
\* is a non-empty string; null is returned whenever `urls` is empty or
\* missing or its first element is an empty string, 0 or null; a Url variant
\* never carries a value other than urls[0].
C13_UrlWheneverFirstNonEmpty ==
    (Decoded /\ IsJson) =>
        /\ (UrlsHasFirst /\ IsUrlString(UrlsMember.items[1]))
             => result = Returned([kind |-> "url", url |-> UrlsMember.items[1]])
        /\ UrlsEmptyOrMissing => result = Returned(Null)
        /\ (UrlsHasFirst /\ ~IsUrlString(UrlsMember.items[1])
              /\ UrlsMember.items[1].t \in {"string", "number", "null"})
             => result = Returned(Null)
        /\ (IsUrlVariant /\ UrlsMember.t = "array") => result.value.url = UrlsMember.items[1]
        /\ IsUrlVariant => result.value.url = Property(UrlsMember, <<"0">>)

\* {"urls":["u","v"]} decoded to the Url variant that carries "u".
C13_Witness ==
    /\ Decoded
    /\ UrlsHasFirst /\ Len(UrlsMember.items) = 2
    /\ result = Returned([kind |-> "url", url |-> [t |-> "string", s |-> <<"u">>]])

\* {"urls":[""]} decoded to null, although `urls` has a first element.
C13_EmptyFirstWitness ==
    /\ Decoded /\ IsJson
    /\ UrlsHasFirst /\ UrlsMember.items[1] = [t |-> "string", s |-> <<>>]
    /\ result = Returned(Null)

IsMpdVariant == result.value # Null /\ result.value.kind = "mpd"

\* Byte sequences that decode to an XML text between white space.
PaddedXmlBytes ==
    { TextBytes(before \o text \o after) :
        before \in { <<>>, <<" ">>, <<"\n", "\t">> },
        after \in { <<>>, <<"\r", "\n">> },
        text \in XmlTexts }

\* C14: the Mpd variant is returned exactly when the decoded text, trimmed,
\* starts with "<"; its rawBytes are the complete decoded bytes, untrimmed,
\* and JSON parsing is not attempted in that case.
C14_MpdExactlyWhenAngle ==
    Decoded =>
        /\ IsMpdVariant <=> TrimmedStartsWithAngle
        /\ IsMpdVariant =>
             /\ ~result.threw
             /\ result.value.buffer = Base64Decode(manifest)
             /\ \A bytes \in PaddedXmlBytes :
                  manifest = Base64Encode(bytes) => result.value.buffer = bytes
             /\ ~jsonParsed

\* " <MPD/>\r\n" decoded to the Mpd variant with all nine bytes.
C14_Witness ==
    /\ Decoded
    /\ manifest = Base64Encode(<<32, 60, 77, 80, 68, 47, 62, 13, 10>>)
    /\ result = Returned([kind |-> "mpd", buffer |-> <<32, 60, 77, 80, 68, 47, 62, 13, 10>>])
    /\ ~jsonParsed

\* C15: for every input string decodeManifest returns a value (Url, Mpd or
\* null) and throws nothing; a text that is neither JSON nor XML gives null.
C15_NeverThrows ==
    /\ pc \in {"encoded", "try", "returned"}
    /\ Decoded =>
         /\ ~result.threw
         /\ result.value = Null \/ IsUrlVariant \/ IsMpdVariant
         /\ (~TrimmedStartsWithAngle /\ DecodedJson.threw) => result.value = Null

\* The JSON text null, whose `urls` cannot be read, decoded to null.
C15_Witness ==
    /\ Decoded
    /\ Trim(DecodedText) = <<"n", "u", "l", "l">>
    /\ jsonParsed
    /\ result = Returned(Null)

\* A manifest without a base64 digit and bytes that are not UTF-8 decoded to null.
C15_BadEncodingWitness ==
    /\ Decoded
    /\ manifest = <<"!", "!", "!", "!">> \/ Base64Decode(manifest) = <<255, 254>>
    /\ result = Returned(Null)

----------------------------------------------------------------------------
(* The claims about fetchDownloadBlob *)

Settled == pc = "settled"

\* Nothing but applyFlacTags has thrown: the audio bytes were fetched and,
\* where needed, converted.
OnlyTaggingFailed == \A i \in 1..Len(errors) : errors[i] = "tag"

\* A Blob was returned that holds the audio: the file tagged with the cover,
\* tagged without it, or as it was fetched.
AudioDelivered ==
    /\ delivery # Null
    /\ delivery.kind = "blob"
    /\ \/ delivery.bytes = applyFlacTags(source, metadata, cover).bytes
       \/ delivery.bytes = applyFlacTags(source, metadata, Null).bytes
       \/ delivery.bytes = source

\* C16: on the direct path and on the conversion path alike, once the audio
\* bytes are fetched (and converted), a Blob with the audio is returned
\* whether or not applyFlacTags throws with the cover and again without it;
\* no tagging error alone makes fetchDownloadBlob reject.
C16_TaggingNeverBlocksDelivery ==
    (Settled /\ OnlyTaggingFailed) => AudioDelivered

\* What holds of the direct path: the audio is delivered whatever applyFlacTags
\* throws, after two failures as the original buffer with a notice.
DirectPathAlwaysDelivers ==
    (Settled /\ ~requiresConversion /\ OnlyTaggingFailed) =>
        /\ AudioDelivered
        /\ errors = <<"tag", "tag">> => delivery.bytes = source /\ notice # ""

\* What holds of the conversion path: the audio is delivered unless
\* applyFlacTags throws a second time.
ConversionPathDeliversOnce ==
    (Settled /\ requiresConversion /\ OnlyTaggingFailed /\ Len(errors) <= 1) => AudioDelivered

\* The conversion path after applyFlacTags threw with and without the cover:
\* the promise is rejected.
ConversionPathRejected ==
    /\ Settled /\ requiresConversion
    /\ errors = <<"tag", "tag">>
    /\ delivery = Rejected("tag")

----------------------------------------------------------------------------
(* The claims about the batch loop *)

\* The track gets as far as its manifest, and the manifest decodes to null or
\* is an MPD that cannot be parsed into segment URLs.
Unprocessable(track) ==
    /\ ~track.cached /\ track.selection = "track" /\ track.requestOk
    /\ LET stream == decodeManifest(track.manifest).value
       IN  \/ stream = Null
           \/ stream.kind = "mpd" /\ parseMpdSegmentUrls(track.doc) = Null

\* The loop is about to process track k, which is unprocessable.
AtUnprocessable(k) ==
    pc = "loop" /\ cursor = k /\ k <= Len(tracks) /\ Unprocessable(tracks[k])

\* ffmpeg fails for no track after the k-th.
NoFfmpegFailureAfter(k) ==
    \A j \in (k + 1)..Len(tracks) : Outcomes[tracks[j]].message # ErrorMessages.ffmpeg

----------------------------------------------------------------------------
(* The claims about the MPD branch of downloadTrackFile *)

\* downloadTrackFile has settled.
DownloadSettled == pc \in {"resolved", "rejected"}

BothArtifacts == {"manifest.mpd", "segments.mp4"}

\* C23: manifest.mpd and segments.mp4 are cleaned up (unlink attempted on
\* both) when and only when segment download, conversion and the optional
\* tagging all completed; on every failure after the manifest was written
\* (unparseable MPD, a failed segment fetch, ffmpeg failure, tagging failure)
\* both artifacts are kept and a warning is logged.
C23_CleanupIffCompleted ==
    DownloadSettled =>
        /\ (unlinked = BothArtifacts) <=> (pc = "resolved")
        /\ pc = "resolved" => warnings = <<>>
        /\ pc = "rejected" =>
              /\ unlinked = {}
              /\ BothArtifacts \subseteq files
              /\ warnings # <<>>

\* What holds of the code: a failure inside the try statement keeps both
\* artifacts and warns about both; an MPD that cannot be parsed keeps the
\* manifest alone, without a warning.
CleanupInsideTry ==
    DownloadSettled =>
        /\ (unlinked = BothArtifacts) <=> (pc = "resolved")
        /\ pc = "resolved" => warnings = <<>>
        /\ (pc = "rejected" /\ plan # Null) =>
              /\ unlinked = {}
              /\ BothArtifacts \subseteq files
              /\ warnings = <<"manifest.mpd", "segments.mp4">>
        /\ (pc = "rejected" /\ plan = Null) =>
              /\ unlinked = {}
              /\ files = {"manifest.mpd"}
              /\ warnings = <<>>

\* An MPD without segment URLs was rejected with no warning logged.
UnparseableMpdNotWarned ==
    pc = "rejected" /\ plan = Null /\ thrown = ErrorMessages.mpd /\ warnings = <<>>

----------------------------------------------------------------------------
(* The claims about the session routes *)

\* C27: under every interleaving of concurrent select, navigate, track and
\* snapshot requests, session.index stays within 0..tracks.length.
C27_IndexInRange == 0 <= sessionIndex /\ sessionIndex <= sessionLength

\* What holds of the code: the position never passes tracks.length by more
\* than the number of select requests that were waiting for their upsert.
IndexInRangeUpToSelects == 0 <= sessionIndex /\ sessionIndex <= sessionLength + MaxRequests

\* Two select requests read the last track before either advanced: the
\* position ends one past tracks.length.
IndexPastEnd ==
    /\ \A r \in 1..MaxRequests : requests[r].kind = "select" /\ requests[r].pc = "done"
    /\ sessionIndex = sessionLength + 1

\* No handler is between two awaits.
Quiescent == \A r \in 1..MaxRequests : requests[r].pc \in {"idle", "refused", "done"}

\* Some request that moves the position has completed.
PositionMoved == \E r \in 1..MaxRequests : requests[r].pc = "done"

PersistedAfterLoneMove ==
    [][\A r \in 1..MaxRequests :
          (/\ requests[r].pc = "persist" /\ requests'[r].pc = "done"
           /\ \A q \in 1..MaxRequests \ {r} : requests[q].pc \in {"idle", "refused"})
          => currentIndex' = sessionIndex']_vars

\* One select request on its own has completed: the position is one past the
\* stored index.
SelectNotPersisted ==
    /\ requests[1].kind = "select" /\ requests[1].pc = "done"
    /\ \A r \in 2..MaxRequests : requests[r].pc = "idle"
    /\ sessionIndex = currentIndex + 1

----------------------------------------------------------------------------
(* The claims about the search results of a session *)

\* The calls that are searching for index i: between marking it and removing
\* the marker.
Searching(i) ==
    { c \in 1..MaxRequests : searches[c].index = i /\ searches[c].pc \in {"search", "upsert"} }

\* C28: for every track index, under any interleaving of prefetchResults and
\* loadResultsForIndex calls, at most one search for the index is running at
\* a time, and the index is in resultsInFlight exactly while a search for it
\* is running: a finishing call never removes the marker of a call that is
\* still running, and no marker remains once all calls have finished.
C28_InFlightExact ==
    \A i \in 0..(MaxTracks - 1) :
        /\ Cardinality(Searching(i)) <= 1
        /\ i \in resultsInFlight <=> Searching(i) # {}

\* What holds of the code: an index is marked only while some call searches
\* for it, so no marker remains once all calls have finished.
MarkedOnlyWhileSearching ==
    \A i \in resultsInFlight : Searching(i) # {}

\* Two calls search for index 0 at the same time.
TwoSearchesOfOneIndex ==
    /\ searches[1].index = 0 /\ searches[1].pc = "search"
    /\ searches[2].index = 0 /\ searches[2].pc = "search"

\* One of two calls searching for index 0 has finished and removed the marker
\* while the other is still searching.
MarkerRemovedEarly ==
    /\ searches[1].index = 0 /\ searches[1].pc = "done"
    /\ searches[2].index = 0 /\ searches[2].pc = "search"
    /\ 0 \notin resultsInFlight

----------------------------------------------------------------------------
(* The claims about the shared FFmpeg instance *)

\* C30: across any number of sequential or concurrent calls of
\* convertMp4ToFlac the FFmpeg instance is created and its load() is invoked
\* at most once; every caller, also one that starts while the first load is
\* pending, awaits the same shared promise.
C30_LoadedAtMostOnce ==
    /\ instances <= 1
    /\ loadCalls <= 1
    /\ \A c \in 1..MaxCallers :
          callers[c].calls > 0 =>
              /\ ffmpegPromise # Null
              /\ callers[c].promise = ffmpegPromise.id
              /\ callers[c].promise = 1

\* Two callers have started while the load is pending: one instance, one
\* load() call, and both await the promise of the first.
C30_Witness ==
    /\ instances = 1
    /\ loadCalls = 1
    /\ ffmpegPromise # Null
    /\ ffmpegPromise.state = "pending"
    /\ callers[1].pc = "awaiting" /\ callers[1].promise = 1
    /\ callers[2].pc = "awaiting" /\ callers[2].promise = 1

====
